---- MODULE Spec2Model ----
(***************************************************************************)
(* A model of src/src/services/advancedAnalysis.ts: the two definitions of *)
(* AdvancedAnalysisService (lines 117-1396, the MA-alignment / widening-   *)
(* range variant, and lines 1515-2673, the markup/markdown / Fibonacci     *)
(* variant), their indicator functions and getFullAnalysis.                *)
(*                                                                         *)
(* Numbers.  A JavaScript number x is modelled by the integer floor(x*U),  *)
(* U = 10^4 (prices in 1/100 of a cent, percentages and ratios to four     *)
(* decimals).  NaN, +Infinity, -Infinity and undefined are reserved codes  *)
(* outside the range of every finite value the model produces, and every   *)
(* arithmetic operator below gives them their IEEE-754 meaning.  Volumes   *)
(* are whole units: the code uses them in ratios and comparisons only.     *)
(* The operators of the first section, At, Tup, Dollars and the integer    *)
(* routines behind Math.log and Math.sqrt model the JavaScript runtime,    *)
(* not lines of the repository.                                            *)
(***************************************************************************)
EXTENDS Integers, Sequences, FiniteSets, TLC

\* ------------------------------------------------------------------------
\* JavaScript numbers
\* ------------------------------------------------------------------------
U == 100 * 100
PosInf == 2 * 1000 * 1000 * 1000
NegInf == 0 - PosInf
NaN == NegInf - 1
Undefined == NegInf - 2
\* An array element that is not of type number (a string, null, an object).
NonNumeric == NegInf - 3

IsNum(x) == x \notin {NaN, PosInf, NegInf, Undefined, NonNumeric}
\* ToNumber(undefined) is NaN; a non-numeric operand is taken as NaN as well.
N(x) == IF x \in {Undefined, NonNumeric} THEN NaN ELSE x
Abs(x) == IF x < 0 THEN 0 - x ELSE x
Sign(x) == IF x < 0 THEN 0 - 1 ELSE IF x > 0 THEN 1 ELSE 0

\* floor(x * a / b) for x >= 0, a >= 0, b > 0, without leaving 32 bits.
MulDivNat(x, a, b) == (x \div b) * a + ((x % b) * a) \div b
\* x * a / b, truncated towards zero.
MulDiv(x, a, b) == Sign(x) * Sign(a) * MulDivNat(Abs(x), Abs(a), b)

RECURSIVE FracDigits(_, _, _)
\* The first n decimal digits of r / b (0 <= r < b), as an integer.
FracDigits(r, b, n) ==
    IF n = 0 THEN 0
    ELSE LET d == (r * 10) \div b
         IN d * (10 ^ (n - 1)) + FracDigits((r * 10) % b, b, n - 1)

\* a / b to four decimals (a >= 0, b > 0), in units of 1/U.
DivNat(a, b) == (a \div b) * U + FracDigits(a % b, b, 4)

JSNeg(a) ==
    CASE N(a) = NaN -> NaN
      [] a = PosInf -> NegInf
      [] a = NegInf -> PosInf
      [] OTHER -> 0 - a

JSAdd(a, b) ==
    CASE N(a) = NaN \/ N(b) = NaN -> NaN
      [] a = PosInf -> IF b = NegInf THEN NaN ELSE PosInf
      [] a = NegInf -> IF b = PosInf THEN NaN ELSE NegInf
      [] b \in {PosInf, NegInf} -> b
      [] OTHER -> a + b

JSSub(a, b) == JSAdd(a, JSNeg(b))

\* a * (n / d) for a decimal literal n / d of the source, n >= 0, d > 0.
JSMulK(a, n, d) ==
    CASE N(a) = NaN -> NaN
      [] a \in {PosInf, NegInf} -> IF n = 0 THEN NaN ELSE a
      [] OTHER -> MulDiv(a, n, d)

\* a * b, both in units of 1/U; |b| stays below 20 in every use.
JSMul(a, b) ==
    CASE N(a) = NaN \/ N(b) = NaN -> NaN
      [] a \in {PosInf, NegInf} ->
            IF b = 0 THEN NaN ELSE IF (b > 0) = (a = PosInf) THEN PosInf ELSE NegInf
      [] b \in {PosInf, NegInf} ->
            IF a = 0 THEN NaN ELSE IF (a > 0) = (b = PosInf) THEN PosInf ELSE NegInf
      [] OTHER -> MulDiv(a, b, U)

\* a / b of two numbers carried in the same unit; the quotient is in 1/U.
JSDiv(a, b) ==
    CASE N(a) = NaN \/ N(b) = NaN -> NaN
      [] a \in {PosInf, NegInf} /\ b \in {PosInf, NegInf} -> NaN
      [] a \in {PosInf, NegInf} -> IF (b >= 0) = (a = PosInf) THEN PosInf ELSE NegInf
      [] b \in {PosInf, NegInf} -> 0
      [] b = 0 -> IF a = 0 THEN NaN ELSE IF a > 0 THEN PosInf ELSE NegInf
      [] OTHER -> Sign(a) * Sign(b) * DivNat(Abs(a), Abs(b))

\* a < b and a > b: false as soon as an operand is NaN.
JSLt(a, b) == N(a) # NaN /\ N(b) # NaN /\ a < b
JSGt(a, b) == JSLt(b, a)
JSLe(a, b) == N(a) # NaN /\ N(b) # NaN /\ a <= b

\* Math.max / Math.min of two numbers.
JSMax2(a, b) == IF N(a) = NaN \/ N(b) = NaN THEN NaN ELSE IF a > b THEN a ELSE b
JSMin2(a, b) == IF N(a) = NaN \/ N(b) = NaN THEN NaN ELSE IF a < b THEN a ELSE b

\* Math.max(...s): -Infinity for no argument, NaN if an argument is NaN.
JSMaxSeq(s) ==
    IF s = <<>> THEN NegInf
    ELSE IF \E i \in 1..Len(s) : N(s[i]) = NaN THEN NaN
    ELSE s[CHOOSE i \in 1..Len(s) : \A j \in 1..Len(s) : s[j] <= s[i]]

\* Math.min(...s): +Infinity for no argument, NaN if an argument is NaN.
JSMinSeq(s) ==
    IF s = <<>> THEN PosInf
    ELSE IF \E i \in 1..Len(s) : N(s[i]) = NaN THEN NaN
    ELSE s[CHOOSE i \in 1..Len(s) : \A j \in 1..Len(s) : s[j] >= s[i]]

JSAbs(a) == IF N(a) = NaN THEN NaN ELSE IF a = NegInf THEN PosInf ELSE Abs(a)

\* x || y on numbers: 0, NaN and undefined are falsy.
JSOr(x, y) == IF x \in {0, NaN, Undefined} THEN y ELSE x
Falsy(x) == x \in {0, NaN, Undefined}

\* Number(x.toFixed(2)): to the nearest 1/100, a tie away from zero.
ToFixed2(x) ==
    IF ~IsNum(x) THEN N(x)
    ELSE Sign(x) * ((Abs(x) + 50) \div 100) * 100

\* s.slice(-n)
SliceLast(s, n) == IF Len(s) <= n THEN s ELSE SubSeq(s, Len(s) - n + 1, Len(s))

\* Sums, maxima and minima over an array are taken by halving the index
\* range: the result is that of the left-to-right loop of the source.
RECURSIVE SumRange(_, _, _)
SumRange(s, lo, hi) ==
    IF lo > hi THEN 0
    ELSE IF lo = hi THEN N(s[lo])
    ELSE LET mid == (lo + hi) \div 2
         IN JSAdd(SumRange(s, lo, mid), SumRange(s, mid + 1, hi))
\* s.reduce((a, b) => a + b, 0)
SumSeq(s) == SumRange(s, 1, Len(s))

\* sum / n for a whole number n of elements, sum in any unit.
JSDivInt(sum, n) ==
    IF ~IsNum(sum) THEN N(sum) ELSE Sign(sum) * (Abs(sum) \div n)

\* ------------------------------------------------------------------------
\* calculateVolumeProfile (identical in both service definitions)
\* ------------------------------------------------------------------------
\* Math.round(price / 10) * 10
RoundedPrice(price) ==
    IF ~IsNum(price) THEN N(price)
    ELSE ((price + 5 * U) \div (10 * U)) * (10 * U)

\* volumes[i] of a JavaScript array (0-based i): undefined past the end.
At(s, i) == IF i >= 0 /\ i < Len(s) THEN s[i + 1] ELSE Undefined

\* An array with its elements evaluated once.
Tup(s) == SubSeq(s, 1, Len(s))

\* The bucket of each price, in the order of the prices.
RoundedPrices(prices) == Tup([i \in 1..Len(prices) |-> RoundedPrice(prices[i])])

\* The indices (1-based) of the prices that fall into bucket k.
InBucket(rounded, k) == {i \in 1..Len(rounded) : rounded[i] = k}

RECURSIVE SumVolumes(_, _, _, _, _)
\* The sum of volumes[i] over the indices i of lo..hi that are in bucket k.
SumVolumes(rounded, volumes, k, lo, hi) ==
    IF lo > hi THEN 0
    ELSE IF lo = hi
         THEN IF rounded[lo] = k THEN N(At(volumes, lo - 1)) ELSE 0
    ELSE JSAdd(SumVolumes(rounded, volumes, k, lo, (lo + hi) \div 2),
               SumVolumes(rounded, volumes, k, (lo + hi) \div 2 + 1, hi))

\* The greatest index of bucket k whose volume is not a number, 0 if none.
LastBad(rounded, volumes, k) ==
    IF \E i \in 1..Len(rounded) : rounded[i] = k /\ N(At(volumes, i - 1)) = NaN
    THEN CHOOSE i \in 1..Len(rounded) :
            /\ rounded[i] = k /\ N(At(volumes, i - 1)) = NaN
            /\ \A j \in (i + 1)..Len(rounded) :
                  ~(rounded[j] = k /\ N(At(volumes, j - 1)) = NaN)
    ELSE 0

BucketVolumeAfter(rounded, volumes, k, lastBad) ==
    IF lastBad # 0 /\ \A i \in (lastBad + 1)..Len(rounded) : rounded[i] # k
    THEN NaN
    ELSE SumVolumes(rounded, volumes, k, lastBad + 1, Len(rounded))

\* priceVolume.get(k) after the forEach over prices.  Each step stores
\* (get(k) || 0) + volumes[i]: a NaN stored so far counts as 0 at the next
\* step, so the value is the sum of the volumes after the last one that is
\* not a number, and NaN if that one is the last of the bucket.
BucketVolume(rounded, volumes, k) ==
    BucketVolumeAfter(rounded, volumes, k, LastBad(rounded, volumes, k))

\* The index of the first price of bucket k.
FirstIndex(rounded, k) ==
    CHOOSE i \in 1..Len(rounded) :
        rounded[i] = k /\ \A j \in 1..(i - 1) : rounded[j] # k

\* The key of S that was inserted first.
FirstKey(rounded, S) ==
    CHOOSE k \in S : \A x \in S : FirstIndex(rounded, k) <= FirstIndex(rounded, x)

RECURSIVE KeysFrom(_, _, _)
\* k0, then the other keys of S in insertion order
KeysFrom(rounded, S, k0) ==
    <<k0>> \o (IF S = {k0} THEN <<>>
              ELSE KeysFrom(rounded, S \ {k0}, FirstKey(rounded, S \ {k0})))

\* The keys S of the Map in insertion order: by first occurrence in prices.
KeysInOrder(rounded, S) ==
    IF S = {} THEN <<>> ELSE KeysFrom(rounded, S, FirstKey(rounded, S))

MapWithKeys(rounded, volumes, keys) ==
    [keys |-> keys,
     values |-> Tup([i \in 1..Len(keys) |-> BucketVolume(rounded, volumes, keys[i])])]

MapOf(rounded, volumes) ==
    MapWithKeys(rounded, volumes,
                Tup(KeysInOrder(rounded, {rounded[i] : i \in 1..Len(rounded)})))

\* The Map priceVolume: its keys in insertion order and, aligned with them,
\* the volume accumulated at each.
PriceVolume(prices, volumes) == MapOf(RoundedPrices(prices), Tup(volumes))

\* priceVolume.get(k) for a key k of the Map
MapGet(m, k) == m.values[CHOOSE i \in 1..Len(m.keys) : m.keys[i] = k]

RECURSIVE FindPOC(_, _, _, _)
\* priceVolume.forEach from entry n on (1-based), best being maxVolume and
\* poc so far: the first key, in insertion order, of strictly greatest
\* volume; (0, currentPrice) when no volume exceeds 0.
FindPOC(m, best, n, last) ==
    IF n > last THEN best
    ELSE FindPOC(m,
                 IF JSGt(m.values[n], best.maxVolume)
                 THEN [maxVolume |-> m.values[n], poc |-> m.keys[n]]
                 ELSE best,
                 n + 1, last)

RECURSIVE SortKeys(_)
\* Array.from(priceVolume.keys()).sort((a, b) => a - b)
SortKeys(S) ==
    IF S = {} THEN <<>>
    ELSE <<CHOOSE x \in S : \A y \in S : x <= y>>
         \o SortKeys(S \ {CHOOSE x \in S : \A y \in S : x <= y})

\* pricesSorted.indexOf(x), 0-based, -1 when absent.
IndexOf(sorted, x) ==
    IF \E i \in 1..Len(sorted) : sorted[i] = x
    THEN (CHOOSE i \in 1..Len(sorted) : sorted[i] = x) - 1
    ELSE 0 - 1

\* next ? priceVolume.get(next) || 0 : 0
NextVolume(m, next) == IF Falsy(next) THEN 0 ELSE JSOr(MapGet(m, next), 0)

StepTo(st, nextLow, nextHigh, lowVolume, highVolume) ==
    IF JSGt(lowVolume, highVolume)
    THEN [low |-> IF Falsy(nextLow) THEN st.low ELSE nextLow,
          high |-> st.high,
          volumeSum |-> JSAdd(st.volumeSum, lowVolume)]
    ELSE [low |-> st.low,
          high |-> IF Falsy(nextHigh) THEN st.high ELSE nextHigh,
          volumeSum |-> JSAdd(st.volumeSum, highVolume)]

StepBetween(m, st, nextLow, nextHigh) ==
    StepTo(st, nextLow, nextHigh, NextVolume(m, nextLow), NextVolume(m, nextHigh))

\* One iteration of the value-area loop on st = (low, high, volumeSum).
ValueAreaStep(m, sorted, st) ==
    StepBetween(m, st, At(sorted, IndexOf(sorted, st.low) - 1),
                At(sorted, IndexOf(sorted, st.high) + 1))

\* ValueAreaGoesOn with a target of 8% of the total volume.
ValueAreaStopsEarly(sorted, totalVolume, st) ==
    /\ IF IsNum(st.volumeSum) /\ IsNum(totalVolume)
       THEN st.volumeSum * 100 < totalVolume * 8
       ELSE JSLt(st.volumeSum, JSMulK(totalVolume, 8, 100))
    /\ \/ JSGt(st.low, At(sorted, 0))
       \/ JSLt(st.high, At(sorted, Len(sorted) - 1))

\* The loop condition: volumeSum < totalVolume * 0.68 and an end not reached.
ValueAreaGoesOn(sorted, totalVolume, st) ==
    /\ IF IsNum(st.volumeSum) /\ IsNum(totalVolume)
       THEN st.volumeSum * 100 < totalVolume * 68
       ELSE JSLt(st.volumeSum, JSMulK(totalVolume, 68, 100))
    /\ \/ JSGt(st.low, At(sorted, 0))
       \/ JSLt(st.high, At(sorted, Len(sorted) - 1))

ValueAreaEnd(st, hang) ==
    [low |-> st.low, high |-> st.high, volumeSum |-> st.volumeSum, hang |-> hang]

RECURSIVE ValueAreaLoop(_, _, _, _)
\* After an iteration took st to nx.  An iteration that changes neither
\* low, high nor volumeSum leaves the condition true for ever: the loop,
\* and the call, never return (hang).
ValueAreaNext(m, sorted, totalVolume, st, nx) ==
    IF nx = st THEN ValueAreaEnd(st, TRUE)
    ELSE ValueAreaLoop(m, sorted, totalVolume, nx)

\* The while loop, run to its end.
ValueAreaLoop(m, sorted, totalVolume, st) ==
    IF ~ValueAreaGoesOn(sorted, totalVolume, st) THEN ValueAreaEnd(st, FALSE)
    ELSE ValueAreaNext(m, sorted, totalVolume, st, ValueAreaStep(m, sorted, st))

\* Array.from(priceVolume.values()).reduce((a, b) => a + b, 0)
SumValues(m) == SumSeq(m.values)

ProfileResult(best, totalVolume, va) ==
    [poc |-> best.poc,
     valueArea |-> [high |-> va.high, low |-> va.low],
     buyingPressure |-> JSDiv(va.volumeSum, totalVolume),
     sellingPressure |-> JSSub(U, JSDiv(va.volumeSum, totalVolume)),
     strength |-> JSDiv(best.maxVolume, totalVolume),
     hang |-> va.hang]

ProfileAround(m, best, totalVolume, sorted) ==
    ProfileResult(best, totalVolume,
        ValueAreaLoop(m, sorted, totalVolume,
                      [low |-> best.poc, high |-> best.poc, volumeSum |-> 0]))

ProfileOfMap(m, currentPrice) ==
    ProfileAround(m,
                  FindPOC(m, [maxVolume |-> 0, poc |-> currentPrice], 1, Len(m.keys)),
                  SumValues(m),
                  Tup(SortKeys({m.keys[i] : i \in 1..Len(m.keys)})))

calculateVolumeProfile(prices, volumes) ==
    IF Len(prices) = 0 \/ Len(volumes) = 0
    THEN [poc |-> 0, valueArea |-> [high |-> 0, low |-> 0],
          buyingPressure |-> U \div 2, sellingPressure |-> U \div 2,
          strength |-> U \div 2, hang |-> FALSE]
    ELSE ProfileOfMap(PriceVolume(prices, volumes), prices[Len(prices)])

\* ------------------------------------------------------------------------
\* calculateVolatility (identical in both service definitions)
\* ------------------------------------------------------------------------
\* A value computed once is handed on as the argument of the operator that
\* uses it, where the source holds it in a local constant.

\* x * y / 10^6 for 0 <= x, y < 2 * 10^6.
MulMicro(x, y) == (x * (y \div 1000)) \div 1000 + (x * (y % 1000)) \div 1000000

\* 2 atanh(z) in millionths from z, z^2 (both in millionths) by the series
\* up to z^9; the terms after the first vanish with z^2.
RECURSIVE AtanhSeries(_, _, _)
\* The sum of 2 z^k / k over the odd k from k to 9, zk being z^k.
AtanhSeries(zk, z2, k) ==
    IF k > 9 \/ zk = 0 THEN 0
    ELSE (2 * zk) \div k + AtanhSeries(MulMicro(zk, z2), z2, k + 2)
TwoAtanh(z) == AtanhSeries(z, MulMicro(z, z), 1)

\* Math.log(a / b) in millionths, for finite a, b > 0:
\* ln(a/b) = 2 atanh(z), z = (a - b) / (a + b).
LnMicro(a, b) ==
    IF a >= b THEN TwoAtanh(FracDigits(a - b, a + b, 6))
    ELSE 0 - TwoAtanh(FracDigits(b - a, a + b, 6))

RECURSIVE SqrtIter(_, _)
SqrtIter(n, x) ==
    IF (x + n \div x) \div 2 >= x THEN x ELSE SqrtIter(n, (x + n \div x) \div 2)
\* floor(Math.sqrt(n)) of a whole number n
ISqrt(n) == IF n <= 0 THEN 0 ELSE SqrtIter(n, n)

\* ((x - avg) / s)^2 with the quotient rounded
ScaledSquare(x, avg, s) == ((Abs(x - avg) + s \div 2) \div s) * ((Abs(x - avg) + s \div 2) \div s)

RECURSIVE SumSquares(_, _, _, _, _)
\* The sum over lo..hi of ((d[i] - avg) / s)^2, each quotient rounded.
SumSquares(d, avg, s, lo, hi) ==
    IF lo > hi THEN 0
    ELSE IF lo = hi THEN ScaledSquare(d[lo], avg, s)
    ELSE SumSquares(d, avg, s, lo, (lo + hi) \div 2)
         + SumSquares(d, avg, s, (lo + hi) \div 2 + 1, hi)

Max2(a, b) == IF a >= b THEN a ELSE b

RECURSIVE MaxAbsDev(_, _, _, _)
\* The greatest |d[i] - avg| over lo..hi.
MaxAbsDev(d, avg, lo, hi) ==
    IF lo = hi THEN Abs(d[lo] - avg)
    ELSE Max2(MaxAbsDev(d, avg, lo, (lo + hi) \div 2),
              MaxAbsDev(d, avg, (lo + hi) \div 2 + 1, hi))

\* The divisor that keeps the sum of n squares within 32 bits.
SquareScale(n, m) ==
    m \div (IF n <= 125 THEN 4000 ELSE ISqrt((2000 * 1000 * 1000) \div n)) + 1

\* sqrt(sum / n) * s in millionths, sum being a sum of squares of
\* millionths divided by s
ScaledRoot(sum, n, s) == (s * ISqrt(MulDivNat(sum, 100, n))) \div 10

StdDevScaled(d, avg, s) == ScaledRoot(SumSquares(d, avg, s, 1, Len(d)), Len(d), s)

StdDevAround(d, avg) == StdDevScaled(d, avg, SquareScale(Len(d), MaxAbsDev(d, avg, 1, Len(d))))

\* total / n, truncated towards zero
Mean(total, n) == Sign(total) * (Abs(total) \div n)

\* Math.sqrt(variance) in millionths for the returns d (millionths):
\* the deviations are scaled so that the sum of squares stays in 32 bits,
\* which keeps about four significant digits.
StdDevMicro(d) == StdDevAround(d, Mean(SumSeq(d), Len(d)))

\* Every ratio prices[i] / prices[i-1] is a finite number > 0.
RatiosPositive(prices) ==
    \A i \in 1..Len(prices) :
        /\ IsNum(prices[i]) /\ prices[i] # 0
        /\ i > 1 => (prices[i] > 0) = (prices[i - 1] > 0)

\* Annualized without Math.min(100, ...).
AnnualizedUncapped(sd) == MulDivNat(sd, 191050, 10000)

\* Math.min(100, sd * Math.sqrt(365) * 100), sd in millionths;
\* Math.sqrt(365) * 100 = 1910.50
Annualized(sd) ==
    IF sd >= 52343 THEN 100 * U ELSE MulDivNat(sd, 191050, 10000)

LogReturns(prices) ==
    Tup([i \in 1..(Len(prices) - 1) |-> LnMicro(Abs(prices[i + 1]), Abs(prices[i]))])

calculateVolatility(prices) ==
    IF Len(prices) < 2 THEN 30 * U
    ELSE IF ~RatiosPositive(prices)
         \* a return of NaN or of +-Infinity makes the variance NaN
         THEN 30 * U
    ELSE Annualized(StdDevMicro(LogReturns(prices)))

\* ------------------------------------------------------------------------
\* calculateRSI (identical in both service definitions)
\* ------------------------------------------------------------------------
\* prices[i] - prices[i - 1] (0-based i)
PriceChange(prices, i) == JSSub(At(prices, i), At(prices, i - 1))

\* x / period for x >= 0, rounded up to the unit: as in IEEE arithmetic, the
\* quotient of a positive number is positive, and it is 0 only for x = 0.
DivUp(x, period) ==
    IF ~IsNum(x) THEN N(x) ELSE (x + period - 1) \div period

\* What the change i adds to the gains (side "gain") or to the losses (side
\* "loss") in the first loop: a change that is not >= 0, NaN included, goes
\* to the losses.
InitialPart(change, side) ==
    IF JSLe(0, change) THEN (IF side = "gain" THEN change ELSE 0)
    ELSE (IF side = "gain" THEN 0 ELSE JSNeg(change))

RECURSIVE InitialSum(_, _, _, _, _)
\* What the first loop adds to sum over the changes lo..hi, in their order
\* (the index range is halved, as for the sums above; a sum of NaN stays
\* NaN).
InitialSum(sum, prices, lo, hi, side) ==
    IF N(sum) = NaN THEN NaN
    ELSE IF lo > hi THEN sum
    ELSE IF lo = hi THEN JSAdd(sum, InitialPart(PriceChange(prices, lo), side))
    ELSE InitialSum(InitialSum(sum, prices, lo, (lo + hi) \div 2, side),
                    prices, (lo + hi) \div 2 + 1, hi, side)

\* Math.max(0, difference) for the gains, Math.max(0, -difference) for the
\* losses
WilderPart(change, side) ==
    JSMax2(0, IF side = "gain" THEN change ELSE JSNeg(change))

\* One step of Wilder's smoothing: (avg * (period - 1) + part) / period
WilderStep(avg, part, period) ==
    DivUp(JSAdd(JSMulK(avg, period - 1, 1), part), period)

RECURSIVE Smoothed(_, _, _, _, _, _)
\* avgGain or avgLoss after Wilder's smoothing has taken avg over the changes
\* lo..hi, in their order (an average of NaN stays NaN).
Smoothed(avg, prices, period, lo, hi, side) ==
    IF N(avg) = NaN THEN NaN
    ELSE IF lo > hi THEN avg
    ELSE IF lo = hi
         THEN WilderStep(avg, WilderPart(PriceChange(prices, lo), side), period)
    ELSE Smoothed(Smoothed(avg, prices, period, lo, (lo + hi) \div 2, side),
                  prices, period, (lo + hi) \div 2 + 1, hi, side)

\* avgGain (side "gain") or avgLoss (side "loss") after both loops
Average(prices, period, side) ==
    Smoothed(DivUp(InitialSum(0, prices, 1, period, side), period),
             prices, period, period + 1, Len(prices) - 1, side)

\* RSIOf with 100 / rs for 100 / (1 + rs).
RSIOfRatio(rs) ==
    IF N(JSSub(100 * U, JSDiv(100 * U, rs))) = NaN THEN 50 * U
    ELSE JSSub(100 * U, JSDiv(100 * U, rs))

\* 100 - (100 / (1 + rs)), 50 if that is NaN
RSIOf(rs) ==
    IF N(JSSub(100 * U, JSDiv(100 * U, JSAdd(U, rs)))) = NaN THEN 50 * U
    ELSE JSSub(100 * U, JSDiv(100 * U, JSAdd(U, rs)))

\* rs = avgLoss === 0 ? 100 : avgGain / avgLoss
RelativeStrength(avgGain, avgLoss) ==
    IF avgLoss = 0 THEN 100 * U ELSE JSDiv(avgGain, avgLoss)

\* prices is an array of numbers, period >= 1.
calculateRSI(prices, period) ==
    IF Len(prices) < period + 1 THEN 50 * U
    ELSE RSIOf(RelativeStrength(Average(prices, period, "gain"),
                                Average(prices, period, "loss")))

\* ------------------------------------------------------------------------
\* calculateRSIArray, calculateStochRSI (identical in both service
\* definitions)
\* ------------------------------------------------------------------------
\* 100 - (100 / (1 + avgGain / avgLoss)): NaN for 0 / 0, 100 for a zero
\* avgLoss under a positive avgGain.
RSIValue(avgGain, avgLoss) ==
    JSSub(100 * U, JSDiv(100 * U, JSAdd(U, JSDiv(avgGain, avgLoss))))

\* The running averages and, of the values pushed so far, the least, the
\* greatest and the last.
RSIArrayStart(avgGain, avgLoss) ==
    [avgGain |-> avgGain, avgLoss |-> avgLoss,
     min |-> PosInf, max |-> NegInf, last |-> Undefined]

Pushed(st, avgGain, avgLoss, rsi) ==
    [avgGain |-> avgGain, avgLoss |-> avgLoss,
     min |-> JSMin2(st.min, rsi), max |-> JSMax2(st.max, rsi), last |-> rsi]

PushedAverages(st, avgGain, avgLoss) ==
    Pushed(st, avgGain, avgLoss, RSIValue(avgGain, avgLoss))

\* One round of the second loop of calculateRSIArray (0-based i).
RSIArrayStep(st, prices, period, i) ==
    PushedAverages(st,
        WilderStep(st.avgGain, WilderPart(PriceChange(prices, i), "gain"), period),
        WilderStep(st.avgLoss, WilderPart(PriceChange(prices, i), "loss"), period))

\* Once both averages and a pushed value are NaN, every later round leaves
\* the averages, the least, the greatest and the last NaN.
RECURSIVE RSIArrayLoop(_, _, _, _, _)
RSIArrayLoop(st, prices, period, lo, hi) ==
    IF st.avgGain = NaN /\ st.avgLoss = NaN /\ st.last = NaN THEN st
    ELSE IF lo > hi THEN st
    ELSE IF lo = hi THEN RSIArrayStep(st, prices, period, lo)
    ELSE RSIArrayLoop(RSIArrayLoop(st, prices, period, lo, (lo + hi) \div 2),
                      prices, period, (lo + hi) \div 2 + 1, hi)

\* calculateRSIArray, as the least, greatest and last of its values.
calculateRSIArray(prices, period) ==
    RSIArrayLoop(RSIArrayStart(DivUp(InitialSum(0, prices, 1, period, "gain"), period),
                               DivUp(InitialSum(0, prices, 1, period, "loss"), period)),
                 prices, period, period + 1, Len(prices) - 1)

\* ((currentRSI - minRSI) / (maxRSI - minRSI)) * 100
StochOf(rsiValues) ==
    JSMulK(JSDiv(JSSub(rsiValues.last, rsiValues.min),
                 JSSub(rsiValues.max, rsiValues.min)), 100, 1)

calculateStochRSI(prices, period) == StochOf(calculateRSIArray(prices, period))
\* ------------------------------------------------------------------------
\* calculateTrueRange, calculateADX (identical in both service definitions)
\* ------------------------------------------------------------------------
\* Math.max(high - low, |high - previousClose|, |low - previousClose|) with
\* high = prices[i] and low = previousClose = prices[i - 1] (0-based i).
TrueRangeAt(prices, i) ==
    JSMaxSeq(<<JSSub(At(prices, i), At(prices, i - 1)),
               JSAbs(JSSub(At(prices, i), At(prices, i - 1))),
               JSAbs(JSSub(At(prices, i - 1), At(prices, i - 1)))>>)

calculateTrueRange(prices) ==
    IF Len(prices) < 2 THEN <<>>
    ELSE Tup([i \in 1..(Len(prices) - 1) |-> TrueRangeAt(prices, i)])

\* Math.max(0, high - prices[i - 1]) with high = prices[i]
DmPlus(prices) ==
    IF Len(prices) < 2 THEN <<>>
    ELSE Tup([i \in 1..(Len(prices) - 1) |-> JSMax2(0, PriceChange(prices, i))])

\* Math.max(0, prices[i - 1] - low) with low = prices[i - 1]
DmMinus(prices) ==
    IF Len(prices) < 2 THEN <<>>
    ELSE Tup([i \in 1..(Len(prices) - 1) |->
                JSMax2(0, JSSub(At(prices, i - 1), At(prices, i - 1)))])

\* (dm.reduce((a, b) => a + b, 0) / period) / atr * 100
DirectionalIndex(dm, period, atr) ==
    JSMulK(JSDiv(JSDivInt(SumSeq(dm), period), atr), 100, 1)

\* Math.abs(diPlus - diMinus) / (diPlus + diMinus) * 100
ADXOf(diPlus, diMinus) ==
    JSMulK(JSDiv(JSAbs(JSSub(diPlus, diMinus)), JSAdd(diPlus, diMinus)), 100, 1)

ADXWithRange(prices, period, atr) ==
    ADXOf(DirectionalIndex(DmPlus(prices), period, atr),
          DirectionalIndex(DmMinus(prices), period, atr))

calculateADX(prices, period) ==
    ADXWithRange(prices, period,
                 JSDivInt(SumSeq(SliceLast(calculateTrueRange(prices), period)), period))
\* ------------------------------------------------------------------------
\* Moving averages, volume ratio, confidence
\* ------------------------------------------------------------------------
\* First service definition: the rolling series, 0 before index period-1.
calculateSMA1(prices, period) ==
    IF Len(prices) = 0 THEN <<0>>
    ELSE [i \in 1..Len(prices) |->
            IF i - 1 < period - 1 THEN 0
            ELSE JSDivInt(SumRange(prices, i - period + 1, i), period)]

\* Second service definition: the mean of the last period prices, alone in
\* an array.
MeanOf(slice) == JSDivInt(SumSeq(slice), Len(slice))

calculateSMA2(prices, period) ==
    IF Len(prices) = 0 THEN <<0>> ELSE <<MeanOf(SliceLast(prices, period))>>

calculateSMA(v, prices, period) ==
    IF v = 1 THEN calculateSMA1(prices, period) ELSE calculateSMA2(prices, period)

\* ------------------------------------------------------------------------
\* determineTrendDirection
\* ------------------------------------------------------------------------
\* The averages are arrays, and ">" and "<" on two arrays compare the
\* strings the arrays convert to.  A string is the sequence of its
\* character codes.
RECURSIVE Digits(_)
Digits(n) == IF n < 10 THEN <<48 + n>> ELSE Append(Digits(n \div 10), 48 + (n % 10))

RECURSIVE Fraction(_)
\* The decimals of r / U (0 <= r < U), without trailing zeros.
Fraction(r) ==
    IF r = 0 THEN <<>> ELSE <<48 + (r * 10) \div U>> \o Fraction((r * 10) % U)

\* Number.prototype.toString: "NaN", "Infinity", "-Infinity", or the
\* decimal digits.
NumberToString(x) ==
    CASE N(x) = NaN -> <<78, 97, 78>>
      [] x = PosInf -> <<73, 110, 102, 105, 110, 105, 116, 121>>
      [] x = NegInf -> <<45, 73, 110, 102, 105, 110, 105, 116, 121>>
      [] OTHER ->
            (IF x < 0 THEN <<45>> ELSE <<>>) \o Digits(Abs(x) \div U)
            \o (IF Abs(x) % U = 0 THEN <<>> ELSE <<46>> \o Fraction(Abs(x) % U))

RECURSIVE JoinRange(_, _, _)
JoinRange(a, lo, hi) ==
    IF lo = hi THEN NumberToString(a[lo])
    ELSE JoinRange(a, lo, (lo + hi) \div 2) \o <<44>>
         \o JoinRange(a, (lo + hi) \div 2 + 1, hi)

\* Array.prototype.toString: the elements joined by ",".
ArrayToString(a) == IF Len(a) = 0 THEN <<>> ELSE JoinRange(a, 1, Len(a))

\* The first index at which s and t differ, one past the shorter of them
\* if there is none.
FirstDifference(s, t, n) ==
    CHOOSE i \in 1..(n + 1) :
        /\ i = n + 1 \/ s[i] # t[i]
        /\ \A j \in 1..(i - 1) : s[j] = t[j]

StringLessAt(s, t, n, i) == IF i = n + 1 THEN Len(s) < Len(t) ELSE s[i] < t[i]

\* s < t on two strings.
StringLess(s, t) ==
    StringLessAt(s, t, JSMin2(Len(s), Len(t)),
                 FirstDifference(s, t, JSMin2(Len(s), Len(t))))

TrendOfStrings(ma20, ma50, ma200) ==
    IF StringLess(ma50, ma20) /\ StringLess(ma200, ma50) THEN "bullish"
    ELSE IF StringLess(ma20, ma50) /\ StringLess(ma50, ma200) THEN "bearish"
    ELSE "neutral"

determineTrendDirection(v, prices) ==
    TrendOfStrings(ArrayToString(calculateSMA(v, prices, 20)),
                   ArrayToString(calculateSMA(v, prices, 50)),
                   ArrayToString(calculateSMA(v, prices, 200)))
\* isNaN(ratio) ? 1 : Math.max(0, ratio)
RatioOrOne(ratio) == IF N(ratio) = NaN THEN U ELSE JSMax2(0, ratio)

\* (sum of the last 5 / 5) / (sum of the last 20 / 20)
calculateVolumeRatio(volumes) ==
    IF Len(volumes) < 20 THEN U
    ELSE RatioOrOne(JSDiv(JSMulK(SumSeq(SliceLast(volumes, 5)), 20, 5),
                          SumSeq(SliceLast(volumes, 20))))

\* indicators: a sequence of numbers in units of 1/U
calculateConfidence(indicators) ==
    JSMin2(95 * U, JSMax2(30 * U, JSDivInt(SumSeq(indicators), Len(indicators))))

categorizeVolatilityRisk(volatility) ==
    IF JSGt(volatility, 80 * U) THEN "high"
    ELSE IF JSGt(volatility, 40 * U) THEN "medium"
    ELSE "low"

\* ------------------------------------------------------------------------
\* calculateTechnicalSignals
\* ------------------------------------------------------------------------
\* The least number of prices calculateTechnicalSignals accepts.
MinSignalPoints(v) == IF v = 1 THEN 200 ELSE 20

\* typeof p !== 'number' || isNaN(p) || p <= 0
InvalidPrice(p) == p = NonNumeric \/ p = Undefined \/ p = NaN \/ p <= 0

VolumeSignificance(strength) ==
    IF JSGt(strength, 7000) THEN "strong"
    ELSE IF JSGt(strength, 4000) THEN "moderate"
    ELSE "weak"

SignalsOf(rsi, stochRSI, volumeChange, volatility, primaryTrend, volumeProfile) ==
    IF volumeProfile.hang THEN [kind |-> "hang"]
    ELSE [kind |-> "ok",
          value |->
            [trend |-> [primary |-> primaryTrend,
                        strength |-> ToFixed2(JSOr(volumeProfile.strength, U \div 2))],
             momentum |-> [rsi |-> [value |-> ToFixed2(rsi)],
                           stochRSI |-> [value |-> ToFixed2(stochRSI)]],
             volatility |-> [current |-> ToFixed2(volatility),
                             risk |-> categorizeVolatilityRisk(volatility)],
             volume |-> [change |-> ToFixed2(volumeChange),
                         significance |-> VolumeSignificance(volumeProfile.strength)]]]

\* The fields of TechnicalSignals that the model carries: trend.primary and
\* .strength, momentum.rsi.value and .stochRSI.value, volatility.current
\* and .risk, volume.change and .significance.  The
\* first service definition works on the last 100 volumes and prices for
\* the ratio and the volatility and on the last 200 for the profile, the
\* second on all of them.
calculateTechnicalSignals(v, priceData, volumeData) ==
    IF ~priceData.isArray \/ Len(priceData.prices) < MinSignalPoints(v)
    THEN [kind |-> "throw"]
    ELSE IF \E i \in 1..Len(priceData.prices) : InvalidPrice(priceData.prices[i])
    THEN [kind |-> "throw"]
    ELSE SignalsOf(
            calculateRSI(priceData.prices, 14),
            calculateStochRSI(priceData.prices, 14),
            IF Len(volumeData) > 0
            THEN calculateVolumeRatio(IF v = 1 THEN SliceLast(volumeData, 100)
                                      ELSE volumeData)
            ELSE U,
            calculateVolatility(IF v = 1 THEN SliceLast(priceData.prices, 100)
                                ELSE priceData.prices),
            determineTrendDirection(v, priceData.prices),
            calculateVolumeProfile(
                IF v = 1 THEN SliceLast(priceData.prices, 200) ELSE priceData.prices,
                IF v = 1 THEN SliceLast(volumeData, 200) ELSE volumeData))

\* ------------------------------------------------------------------------
\* getDefaultMarketPhase (identical in both service definitions)
\* ------------------------------------------------------------------------
Dollars(d) == d * U

\* crypto.toLowerCase() on the asset ids of the model
ToLowerCase(crypto) == IF crypto = "Bitcoin" THEN "bitcoin" ELSE crypto

\* The own properties of defaultRanges.
DefaultRanges ==
    [bitcoin |-> [support |-> Dollars(65000), resistance |-> Dollars(70000)],
     ethereum |-> [support |-> Dollars(2300), resistance |-> Dollars(2500)],
     binancecoin |-> [support |-> Dollars(280), resistance |-> Dollars(320)],
     cardano |-> [support |-> 4500, resistance |-> 5500],
     solana |-> [support |-> Dollars(90), resistance |-> Dollars(110)]]

\* The lower-case property names defaultRanges inherits from Object.prototype:
\* defaultRanges[name] is then an object (truthy) without support or
\* resistance.
InheritedProperties == {"constructor", "__proto__"}

DefaultPhaseOf(currentPrice, range) ==
    [kind |-> "ok",
     value |->
       [phase |-> "Analyzing",
        strength |-> U \div 2,
        confidence |-> 50 * U,
        keyLevels |->
          [strongSupport |-> ToFixed2(JSMulK(range.support, 98, 100)),
           support |-> ToFixed2(range.support),
           pivot |-> ToFixed2(currentPrice),
           resistance |-> ToFixed2(range.resistance),
           strongResistance |-> ToFixed2(JSMulK(range.resistance, 102, 100))]]]

getDefaultMarketPhase(currentPrice, crypto) ==
    IF ToLowerCase(crypto) \in InheritedProperties
    \* range.support is undefined: range.support.toFixed is a TypeError
    THEN [kind |-> "throw"]
    ELSE DefaultPhaseOf(currentPrice,
            IF ToLowerCase(crypto) \in DOMAIN DefaultRanges
            THEN DefaultRanges[ToLowerCase(crypto)]
            ELSE [support |-> JSMulK(currentPrice, 95, 100),
                  resistance |-> JSMulK(currentPrice, 105, 100)])

\* ------------------------------------------------------------------------
\* calculateMarketPhase
\* ------------------------------------------------------------------------
\* A response of the trend model to analyzeTrendStrength: getTrendModel or
\* predict throws, or the scalar (await prediction.data())[0].
TrendThrows == [kind |-> "throw", value |-> 0]
TrendValue(x) == [kind |-> "value", value |-> x]

Last(s) == At(s, Len(s) - 1)

TrendStructure(currentPrice, ma20, ma50, ma200) ==
    [aboveMA20 |-> JSGt(currentPrice, ma20),
     aboveMA50 |-> JSGt(currentPrice, ma50),
     aboveMA200 |-> JSGt(currentPrice, ma200),
     ma50AboveMA200 |-> JSGt(ma50, ma200),
     ma20AboveMA50 |-> JSGt(ma20, ma50)]

\* The conditions of the four rules of the phase decision.
RulesOfStructure(t) ==
    [bullish |-> t.aboveMA50 /\ t.ma50AboveMA200 /\ t.ma20AboveMA50,
     bearish |-> ~t.aboveMA50 /\ ~t.ma50AboveMA200 /\ ~t.ma20AboveMA50,
     correction |-> t.aboveMA200 /\ ~t.aboveMA50,
     recovery |-> ~t.aboveMA200 /\ t.aboveMA50]

\* PhaseOfStructure with the correction rule reading aboveMA20 for
\* aboveMA50.
PhaseOfStructureByMA20(t) ==
    IF t.aboveMA50 /\ t.ma50AboveMA200 /\ t.ma20AboveMA50 THEN "bullish"
    ELSE IF ~t.aboveMA50 /\ ~t.ma50AboveMA200 /\ ~t.ma20AboveMA50 THEN "bearish"
    ELSE IF t.aboveMA200 /\ ~t.aboveMA20 THEN "correction"
    ELSE IF ~t.aboveMA200 /\ t.aboveMA50 THEN "recovery"
    ELSE "sideways"

\* The phase decision of the first service definition.
PhaseOfStructure(t) ==
    IF t.aboveMA50 /\ t.ma50AboveMA200 /\ t.ma20AboveMA50 THEN "bullish"
    ELSE IF ~t.aboveMA50 /\ ~t.ma50AboveMA200 /\ ~t.ma20AboveMA50 THEN "bearish"
    ELSE IF t.aboveMA200 /\ ~t.aboveMA50 THEN "correction"
    ELSE IF ~t.aboveMA200 /\ t.aboveMA50 THEN "recovery"
    ELSE "sideways"

Support1(lowPrice, ma20, ma50, currentPrice) ==
    JSMax2(JSMax2(lowPrice, JSMulK(JSMin2(ma20, ma50), 995, 1000)),
           JSMulK(currentPrice, 95, 100))

Resistance1(highPrice, ma20, ma50, currentPrice, support) ==
    JSMax2(JSMin2(JSMin2(highPrice, JSMulK(JSMax2(ma20, ma50), 1005, 1000)),
                  JSMulK(currentPrice, 105, 100)),
           JSMulK(support, 101, 100))

\* keyLevels.resistance after the validation of the key levels
ValidResistance(currentPrice, rounded) ==
    IF N(rounded) = NaN \/ rounded = 0
    THEN ToFixed2(JSMulK(currentPrice, 105, 100)) ELSE rounded

\* keyLevels.strongResistance after the validation of the key levels
ValidStrongResistance(resistance, rounded) ==
    IF N(rounded) = NaN \/ rounded = 0
    THEN ToFixed2(JSMulK(resistance, 101, 100)) ELSE rounded

KeyLevels1(currentPrice, support, resistance) ==
    [strongSupport |-> ToFixed2(JSMulK(support, 99, 100)),
     support |-> ToFixed2(support),
     pivot |-> ToFixed2(currentPrice),
     resistance |-> ValidResistance(currentPrice, ToFixed2(resistance)),
     strongResistance |->
        ValidStrongResistance(ValidResistance(currentPrice, ToFixed2(resistance)),
                              ToFixed2(JSMulK(resistance, 101, 100)))]

Phase1Result(phaseStrength, currentPrice, t, support, resistance) ==
    [phase |-> PhaseOfStructure(t),
     strength |-> ToFixed2(phaseStrength),
     confidence |->
        ToFixed2(calculateConfidence(
            <<JSMulK(phaseStrength, 100, 1),
              IF t.aboveMA50 THEN 60 * U ELSE 40 * U,
              IF t.aboveMA200 THEN 60 * U ELSE 40 * U,
              JSMulK(JSDiv(JSSub(currentPrice, support),
                           JSSub(resistance, support)), 100, 1)>>)),
     keyLevels |-> KeyLevels1(currentPrice, support, resistance)]

Phase1FromSupport(phaseStrength, currentPrice, ma20, ma50, ma200, highPrice, support) ==
    Phase1Result(phaseStrength, currentPrice,
                 TrendStructure(currentPrice, ma20, ma50, ma200), support,
                 Resistance1(highPrice, ma20, ma50, currentPrice, support))

Phase1FromAverages(phaseStrength, currentPrice, ma20, ma50, ma200, highPrice, lowPrice) ==
    Phase1FromSupport(phaseStrength, currentPrice, ma20, ma50, ma200, highPrice,
                      Support1(lowPrice, ma20, ma50, currentPrice))

\* this.calculateSMA(prices, period)[0] of the first definition: the
\* average calculateMarketPhase works with.
MovingAverage1(prices, period) == calculateSMA(1, prices, period)[1]

\* The body of the first definition's try block after analyzeTrendStrength
\* returned trendStrength.
MarketPhase1(prices, trendStrength) ==
    Phase1FromAverages(JSAbs(trendStrength), Last(prices),
                       MovingAverage1(prices, 20),
                       MovingAverage1(prices, 50),
                       MovingAverage1(prices, 200),
                       JSMaxSeq(SliceLast(prices, 20)),
                       JSMinSeq(SliceLast(prices, 20)))

\* Second service definition.
PhaseOfAverages(currentPrice, ma50, ma200, trendStrength) ==
    IF JSGt(currentPrice, ma50) /\ JSGt(ma50, ma200)
       /\ JSGt(trendStrength, 7000) THEN "markup"
    ELSE IF JSLt(currentPrice, ma50) /\ JSLt(ma50, ma200)
            /\ JSLt(trendStrength, 0 - 7000) THEN "markdown"
    ELSE IF JSGt(trendStrength, 3000) THEN "accumulation"
    ELSE IF JSLt(trendStrength, 0 - 3000) THEN "distribution"
    ELSE "sideways"

determineMarketPhase(prices, volumeData, trendStrength) ==
    IF Len(prices) = 0 \/ Len(volumeData) = 0 THEN "sideways"
    ELSE PhaseOfAverages(Last(prices), calculateSMA(2, prices, 50)[1],
                         calculateSMA(2, prices, 200)[1], trendStrength)

calculatePhaseStrength(phase, trendStrength, volumeProfile) ==
    CASE phase = "markup" -> JSMin2(U, JSMulK(trendStrength, 12, 10))
      [] phase = "markdown" -> JSMin2(U, JSMulK(JSAbs(trendStrength), 12, 10))
      [] phase = "accumulation" ->
            JSMin2(U, JSMulK(volumeProfile.buyingPressure, 15, 10))
      [] phase = "distribution" ->
            JSMin2(U, JSMulK(volumeProfile.sellingPressure, 15, 10))
      [] OTHER -> U \div 2

\* 1.1 or 0.9, in tenths
StructureFactor(above) == IF above THEN 11 ELSE 9

\* trendStrength * (f20 * f50 * f200), each factor 1.1 or 0.9
AdjustedTrend(trendStrength, currentPrice, ma20, ma50, ma200) ==
    JSMulK(trendStrength,
           StructureFactor(JSGt(currentPrice, ma20))
             * StructureFactor(JSGt(currentPrice, ma50))
             * StructureFactor(JSGt(currentPrice, ma200)),
           1000)

Support2(lowPrice, ma20, ma50, ma200) ==
    JSMax2(lowPrice, JSMulK(JSMin2(JSMin2(ma20, ma50), ma200), 99, 100))

Resistance2(highPrice, ma20, ma50, ma200) ==
    JSMin2(highPrice, JSMulK(JSMax2(JSMax2(ma20, ma50), ma200), 101, 100))

\* Math.max(0.5, 1 - volatility / 100)
VolatilityFactor(volatility) ==
    JSMax2(U \div 2, JSSub(U, JSMulK(volatility, 1, 100)))

Phase2Result(phase, phaseStrength, adjusted, volatility, priceRange, currentPrice, support, resistance, hang) ==
    [hang |-> hang,
     value |->
       [phase |-> phase,
        strength |-> ToFixed2(phaseStrength),
        confidence |->
           ToFixed2(calculateConfidence(
               <<JSMulK(phaseStrength, 100, 1),
                 JSMulK(VolatilityFactor(volatility), 100, 1),
                 JSMulK(adjusted, 100, 1),
                 JSMulK(JSDiv(priceRange, currentPrice), 50, 1)>>)),
        keyLevels |->
          [strongSupport |-> ToFixed2(JSMulK(support, 99, 100)),
           support |-> ToFixed2(support),
           pivot |-> ToFixed2(currentPrice),
           resistance |-> ToFixed2(resistance),
           strongResistance |-> ToFixed2(JSMulK(resistance, 101, 100))]]]

Phase2FromPhase(prices, phase, adjusted, volumeProfile, currentPrice, ma20, ma50, ma200, highPrice, lowPrice) ==
    Phase2Result(phase, calculatePhaseStrength(phase, adjusted, volumeProfile),
                 adjusted, calculateVolatility(prices), JSSub(highPrice, lowPrice),
                 currentPrice, Support2(lowPrice, ma20, ma50, ma200),
                 Resistance2(highPrice, ma20, ma50, ma200), volumeProfile.hang)

Phase2FromTrend(prices, volumeData, adjusted, currentPrice, ma20, ma50, ma200, highPrice, lowPrice) ==
    Phase2FromPhase(prices, determineMarketPhase(prices, volumeData, adjusted),
                    adjusted, calculateVolumeProfile(prices, volumeData),
                    currentPrice, ma20, ma50, ma200, highPrice, lowPrice)

Phase2FromAverages(prices, volumeData, trendStrength, currentPrice, ma20, ma50, ma200, highPrice, lowPrice) ==
    Phase2FromTrend(prices, volumeData,
                    AdjustedTrend(trendStrength, currentPrice, ma20, ma50, ma200),
                    currentPrice, ma20, ma50, ma200, highPrice, lowPrice)

\* The body of the second definition's try block after analyzeTrendStrength
\* returned trendStrength; hang is TRUE when calculateVolumeProfile does not
\* return.
MarketPhase2(prices, volumeData, trendStrength) ==
    Phase2FromAverages(prices, volumeData, trendStrength, Last(prices),
                       calculateSMA(2, prices, 20)[1],
                       calculateSMA(2, prices, 50)[1],
                       calculateSMA(2, prices, 200)[1],
                       JSMaxSeq(SliceLast(prices, 20)),
                       JSMinSeq(SliceLast(prices, 20)))

PhaseOrHang(r) ==
    IF r.hang THEN [kind |-> "hang", value |-> r.value]
    ELSE [kind |-> "ok", value |-> r.value]

\* calculateMarketPhase of service definition v, given the response of the
\* trend model: the try block, and the catch block that falls back to
\* getDefaultMarketPhase with the last price.
calculateMarketPhase(v, prices, volumeData, crypto, trend) ==
    IF trend.kind = "throw"
    THEN getDefaultMarketPhase(JSOr(Last(prices), 0), crypto)
    ELSE IF v = 1
    THEN [kind |-> "ok", value |-> MarketPhase1(prices, trend.value)]
    ELSE PhaseOrHang(MarketPhase2(prices, volumeData, trend.value))

\* ------------------------------------------------------------------------
\* Sentiment and news scores
\* ------------------------------------------------------------------------
\* A response of getSentiment: a throw, null, or an array of records
\* [volume, sentiment].  A response of getNews: a throw, null, an object
\* whose news property is not an array, or an object whose news property is
\* an array of items, each carried as its sentiment string.
CountOf(news, label) == Cardinality({i \in 1..Len(news) : news[i] = label})

\* newsData?.news || []  (length and items; an object that is not an array
\* has no length)
NewsItems(newsData) == IF newsData.kind = "news" THEN newsData.news ELSE <<>>

\* sentiment?.[0]?.volume || 50
SentimentVolume(sentiment) ==
    IF sentiment.kind = "array" /\ Len(sentiment.items) > 0
    THEN JSOr(sentiment.items[1].volume, 50 * U)
    ELSE 50 * U

calculateNewsScore(news) ==
    IF Len(news) = 0 THEN 50 * U
    ELSE JSMulK(JSAdd(JSDiv(CountOf(news, "positive") - CountOf(news, "negative"),
                            Len(news)), U), 50, 1)

\* positiveCount > negativeCount * 1.5, and the converse
TrendOfCounts(positiveCount, negativeCount) ==
    IF 2 * positiveCount > 3 * negativeCount THEN "bullish"
    ELSE IF 2 * negativeCount > 3 * positiveCount THEN "bearish"
    ELSE "neutral"

\* news.slice(0, 5)
FirstFive(news) == SubSeq(news, 1, IF Len(news) < 5 THEN Len(news) ELSE 5)

calculateNewsTrend(news) ==
    IF Len(news) = 0 THEN "neutral"
    ELSE TrendOfCounts(CountOf(FirstFive(news), "positive"),
                       CountOf(FirstFive(news), "negative"))

\* sentiment[0] on null is a TypeError.
calculateSentimentScore(news, sentiment) ==
    IF Len(news) = 0 THEN [kind |-> "ok", value |-> 50 * U]
    ELSE IF sentiment.kind # "array" THEN [kind |-> "throw", value |-> NaN]
    ELSE [kind |-> "ok",
          value |-> JSMulK(JSAdd(calculateNewsScore(news),
                                 SentimentVolume(sentiment)), 1, 2)]

SignalOfScore(score) ==
    IF JSGt(score, 60 * U) THEN "bullish"
    ELSE IF JSLt(score, 40 * U) THEN "bearish"
    ELSE "neutral"

determineSentimentSignal(sentiment) ==
    IF sentiment.kind # "array" THEN [kind |-> "throw", value |-> "none"]
    ELSE [kind |-> "ok", value |-> SignalOfScore(SentimentVolume(sentiment))]

\* ------------------------------------------------------------------------
\* analyzeRisk (identical in both service definitions)
\* ------------------------------------------------------------------------
\* Math.min(100, Math.max(0, riskScore))
ClampRisk(riskScore) == JSMin2(100 * U, JSMax2(0, riskScore))

\* volumes[volumes.length - 1] / volumes[volumes.length - 2]
LastVolumeRatio(volumes) ==
    JSDiv(At(volumes, Len(volumes) - 1), At(volumes, Len(volumes) - 2))

\* (s[length - 1] - s[length - k]) / s[length - k]
ChangeOver(s, k) ==
    JSDiv(JSSub(At(s, Len(s) - 1), At(s, Len(s) - k)), At(s, Len(s) - k))

calculateFundamentalRisk(prices, volumes) ==
    ClampRisk(JSAdd(JSAdd(JSMulK(calculateVolatility(prices), 4, 10),
                          JSMulK(JSAbs(JSSub(LastVolumeRatio(volumes), U)), 30, 1)),
                    JSMulK(JSAbs(ChangeOver(prices, 2)), 30, 1)))

\* volumes[last] / (sum of the last 20 / 20)
VolumeTrendRatio(volumes) ==
    JSDiv(JSMulK(At(volumes, Len(volumes) - 1), 20, 1),
          SumSeq(SliceLast(volumes, 20)))

calculateMarketRisk(prices, volumes) ==
    ClampRisk(JSAdd(JSMulK(JSSub(50 * U, JSMulK(JSAbs(ChangeOver(prices, 20)), 100, 1)),
                           6, 10),
                    JSMulK(JSAbs(JSSub(VolumeTrendRatio(volumes), U)), 40, 1)))

\* generateRiskWarnings without the message for the case of no warning.
generateRiskWarningsBare(volatility, trendStrength, volumeRatio) ==
    (IF JSGt(volatility, 50 * U) THEN <<"High market volatility">> ELSE <<>>)
    \o (IF JSLt(trendStrength, 3000) THEN <<"Weak market trend">> ELSE <<>>)
    \o (IF JSGt(volumeRatio, 2 * U) THEN <<"Unusual trading volume">> ELSE <<>>)

generateRiskWarnings(volatility, trendStrength, volumeRatio) ==
    IF JSGt(volatility, 50 * U) \/ JSLt(trendStrength, 3000) \/ JSGt(volumeRatio, 2 * U)
    THEN (IF JSGt(volatility, 50 * U) THEN <<"High market volatility">> ELSE <<>>)
         \o (IF JSLt(trendStrength, 3000) THEN <<"Weak market trend">> ELSE <<>>)
         \o (IF JSGt(volumeRatio, 2 * U) THEN <<"Unusual trading volume">> ELSE <<>>)
    ELSE <<"No significant risks detected">>

RiskOf(technicalRisk, sentimentRisk, fundamentalRisk, marketRisk, warnings) ==
    [overall |-> JSMulK(JSAdd(JSAdd(JSAdd(technicalRisk, sentimentRisk),
                                    fundamentalRisk), marketRisk), 1, 4),
     factors |-> [technical |-> technicalRisk,
                  fundamental |-> fundamentalRisk,
                  sentiment |-> sentimentRisk,
                  market |-> marketRisk],
     warnings |-> warnings]

RiskWithScore(technicalData, score) ==
    IF score.kind = "throw" THEN [kind |-> "throw"]
    ELSE [kind |-> "ok",
          value |->
            RiskOf(JSAdd(JSMulK(technicalData.volatility, 7, 10),
                         JSMulK(JSSub(U, JSAbs(technicalData.trendStrength)), 30, 1)),
                   JSSub(100 * U, score.value),
                   calculateFundamentalRisk(technicalData.prices, technicalData.volumes),
                   calculateMarketRisk(technicalData.prices, technicalData.volumes),
                   generateRiskWarnings(technicalData.volatility,
                                        technicalData.trendStrength,
                                        LastVolumeRatio(technicalData.volumes)))]

\* A throw of calculateSentimentScore leaves analyzeRisk.
analyzeRisk(technicalData, sentimentData) ==
    RiskWithScore(technicalData,
                  calculateSentimentScore(sentimentData.news, sentimentData.sentiment))

\* ------------------------------------------------------------------------
\* Predictions
\* ------------------------------------------------------------------------
getDefaultPredictions(currentPrice) ==
    [shortTerm |-> [price |-> [low |-> JSMulK(currentPrice, 95, 100),
                               high |-> JSMulK(currentPrice, 105, 100)],
                    confidence |-> 50 * U,
                    signals |-> <<"Default prediction">>],
     midTerm |-> [price |-> [low |-> JSMulK(currentPrice, 90, 100),
                             high |-> JSMulK(currentPrice, 110, 100)],
                  confidence |-> 40 * U,
                  signals |-> <<"Default prediction">>],
     longTerm |-> [price |-> [low |-> JSMulK(currentPrice, 85, 100),
                              high |-> JSMulK(currentPrice, 115, 100)],
                   confidence |-> 30 * U,
                   signals |-> <<"Default prediction">>]]

\* First service definition.
MovementSignal(range) ==
    IF JSGt(range, 500) THEN <<"Moderate price movement expected">>
    ELSE IF JSGt(range, 1000) THEN <<"Significant price movement expected">>
    ELSE <<"Stable price action expected">>

generatePredictionSignals1(low, high, volatility) ==
    MovementSignal(JSDiv(JSSub(high, low), low))
    \o (IF JSGt(volatility, 300) THEN <<"Higher than average volatility">>
        ELSE IF JSLt(volatility, 100) THEN <<"Lower than average volatility">>
        ELSE <<>>)

\* currentPrice * (1 - (volatilityFactor * k + 0.01 * k)) and the same
\* above the price, for the horizon k = 1, 2, 3.
\* HorizonRange with the volatility factor divided by the horizon instead of
\* multiplied by it.
HorizonRangeDivided(currentPrice, volatilityFactor, k) ==
    [low |-> JSMul(currentPrice,
                   JSSub(U, JSAdd(JSMulK(volatilityFactor, 1, k), k * 100))),
     high |-> JSMul(currentPrice,
                    JSAdd(U, JSAdd(JSMulK(volatilityFactor, 1, k), k * 100)))]

HorizonRange(currentPrice, volatilityFactor, k) ==
    [low |-> JSMul(currentPrice,
                   JSSub(U, JSAdd(JSMulK(volatilityFactor, k, 1), k * 100))),
     high |-> JSMul(currentPrice,
                    JSAdd(U, JSAdd(JSMulK(volatilityFactor, k, 1), k * 100)))]

adjustRanges(range, currentPrice, adjustment) ==
    [low |-> JSMax2(JSAdd(range.low, adjustment), JSMulK(currentPrice, 85, 100)),
     high |-> JSMin2(JSAdd(range.high, adjustment), JSMulK(currentPrice, 115, 100))]

Horizon1(range, currentPrice, adjustment, confidence, volatility) ==
    [price |-> adjustRanges(range, currentPrice, adjustment),
     confidence |-> confidence,
     signals |-> generatePredictionSignals1(range.low, range.high, volatility)]

\* adjustment is sentimentAdjustment + trendAdjustment.
Predictions1(currentPrice, volatilityFactor, adjustment, baseConfidence) ==
    [shortTerm |-> Horizon1(HorizonRange(currentPrice, volatilityFactor, 1),
                            currentPrice, adjustment, baseConfidence,
                            volatilityFactor),
     midTerm |-> Horizon1(HorizonRange(currentPrice, volatilityFactor, 2),
                          currentPrice, adjustment,
                          JSMax2(40 * U, JSMulK(baseConfidence, 9, 10)),
                          JSMulK(volatilityFactor, 2, 1)),
     longTerm |-> Horizon1(HorizonRange(currentPrice, volatilityFactor, 3),
                           currentPrice, adjustment,
                           JSMax2(30 * U, JSMulK(baseConfidence, 8, 10)),
                           JSMulK(volatilityFactor, 3, 1))]

BaseConfidence(volatilityFactor, sentimentFactor) ==
    JSMin2(90 * U, JSMax2(50 * U,
        JSAdd(JSSub(70 * U, JSMulK(volatilityFactor, 100, 1)),
              JSMulK(JSAbs(sentimentFactor), 100, 1))))

PredictionsFromFactors(currentPrice, volatilityFactor, sentimentFactor, trendFactor) ==
    Predictions1(currentPrice, volatilityFactor,
                 \* range.low + sentimentAdjustment + trendAdjustment
                 JSAdd(JSMul(currentPrice, sentimentFactor),
                       JSMul(currentPrice, trendFactor)),
                 BaseConfidence(volatilityFactor, sentimentFactor))

\* Math.min(0.03, Math.max(-0.03, (last - first) / first)) of the last 20
TrendFactor(recentPrices) ==
    JSMin2(300, JSMax2(0 - 300,
        JSDiv(JSSub(Last(recentPrices), At(recentPrices, 0)), At(recentPrices, 0))))

\* First service definition: the widening-range policy.  Nothing in its try
\* block throws for the data the orchestrator passes.
predictPriceTargets1(data) ==
    PredictionsFromFactors(data.currentPrice,
                           JSMin2(500, JSMulK(data.volatility, 1, 1000)),
                           JSMulK(JSSub(data.sentiment, 50 * U), 2, 10000),
                           TrendFactor(SliceLast(data.prices, 20)))

\* Second service definition.
SignalsAround(low, high, spread, midpoint) ==
    (IF JSGt(high, JSMulK(midpoint, 11, 10)) THEN <<"Strong upward potential">>
     ELSE IF JSLt(low, JSMulK(midpoint, 9, 10)) THEN <<"Significant downside risk">>
     ELSE <<>>)
    \o (IF JSGt(spread, 2000) THEN <<"High volatility expected">>
        ELSE IF JSLt(spread, 500) THEN <<"Low volatility expected">>
        ELSE <<>>)
    \o (IF JSLt(spread, 1000) THEN <<"High prediction confidence">>
        ELSE IF JSGt(spread, 3000) THEN <<"Low prediction confidence">>
        ELSE <<>>)

generatePredictionSignals2(low, high, spread) ==
    SignalsAround(low, high, spread, JSMulK(JSAdd(high, low), 1, 2))

PredictionOfSpread(low, high, spread, tenths) ==
    [price |-> [low |-> low, high |-> high],
     confidence |->
        JSMin2(95 * U, JSMax2(30 * U,
            JSMulK(JSMulK(JSSub(U, spread), 100, 1), tenths, 10))),
     signals |-> generatePredictionSignals2(low, high, spread)]

\* Second service definition: output is the pair [low, high] the model
\* predicted; tenths is the timeframe multiplier 1, 0.9 or 0.8 in tenths.
makePrediction2(output, tenths) ==
    PredictionOfSpread(output.low, output.high,
        JSDiv(JSSub(output.high, output.low),
              JSMulK(JSAdd(output.high, output.low), 1, 2)),
        tenths)

\* support + range * thousandths / 1000
Fib(support, resistance, thousandths) ==
    JSAdd(support, JSMulK(JSSub(resistance, support), thousandths, 1000))

calculatePriceTargets(currentPrice, prices, volatility, support, resistance) ==
    [shortTerm |->
       [low |-> JSMax2(Fib(support, resistance, 236),
                       JSMul(currentPrice, JSSub(U, JSMulK(volatility, 1, 10)))),
        high |-> JSMin2(resistance,
                        JSMul(currentPrice, JSAdd(U, JSMulK(volatility, 1, 10))))],
     midTerm |-> [low |-> JSMin2(currentPrice, Fib(support, resistance, 382)),
                  high |-> JSMax2(currentPrice, Fib(support, resistance, 618))],
     longTerm |-> [low |-> support, high |-> resistance]]

Horizon2(price, prediction) ==
    [price |-> price, confidence |-> prediction.confidence,
     signals |-> prediction.signals]

\* Predictions2 with the multipliers of the 7d and the 30d horizon exchanged.
Predictions2Swapped(priceTargets, response) ==
    [shortTerm |-> Horizon2(priceTargets.shortTerm, makePrediction2(response, 10)),
     midTerm |-> Horizon2(priceTargets.midTerm, makePrediction2(response, 8)),
     longTerm |-> Horizon2(priceTargets.longTerm, makePrediction2(response, 9))]

Predictions2(priceTargets, response) ==
    [shortTerm |-> Horizon2(priceTargets.shortTerm, makePrediction2(response, 10)),
     midTerm |-> Horizon2(priceTargets.midTerm, makePrediction2(response, 9)),
     longTerm |-> Horizon2(priceTargets.longTerm, makePrediction2(response, 8))]

\* Second service definition: the Fibonacci policy, given the response of
\* the model to getTrendModel and the three predict calls on one feature
\* tensor: a throw of any of them is caught and gives the default
\* predictions for the current price.
predictPriceTargets2(data, response) ==
    IF response.kind = "throw" THEN getDefaultPredictions(data.currentPrice)
    ELSE Predictions2(
            calculatePriceTargets(data.currentPrice, data.prices, data.volatility,
                                  JSMinSeq(SliceLast(data.prices, 20)),
                                  JSMaxSeq(SliceLast(data.prices, 20))),
            response)

\* ------------------------------------------------------------------------
\* getDefaultAnalysis (identical in both service definitions)
\* ------------------------------------------------------------------------
DefaultPrice == 76000

DefaultMessage == "Using default analysis due to data unavailability"

\* A trading strategy as the model carries it; kind is "undefined" for a
\* generator that resolved without a strategy object.
Strategy(recommendation, confidence, timeframe, rationale) ==
    [kind |-> "object", recommendation |-> recommendation,
     confidence |-> confidence, timeframe |-> timeframe, rationale |-> rationale]
NoStrategy == [kind |-> "undefined", recommendation |-> "", confidence |-> Undefined,
               timeframe |-> "", rationale |-> <<>>]

\* The report of getDefaultAnalysis, or a throw when getDefaultMarketPhase
\* throws; marketCondition is the result of getDefaultMarketPhase.
DefaultAnalysisWith(marketCondition) ==
       IF marketCondition.kind = "throw" THEN [kind |-> "throw"]
       ELSE [kind |-> "ok",
             value |->
               [marketCondition |-> marketCondition.value,
                technicalSignals |->
                  [trend |-> [primary |-> "neutral", strength |-> U \div 2],
                   momentum |-> [rsi |-> [value |-> 50 * U],
                                 stochRSI |-> [value |-> 50 * U]],
                   volatility |-> [current |-> 30 * U, risk |-> "low"],
                   volume |-> [change |-> U, significance |-> "moderate"]],
                sentimentAnalysis |->
                  [overall |-> [score |-> 50 * U, signal |-> "neutral",
                                confidence |-> 50 * U],
                   components |->
                     [news |-> [score |-> 50 * U, trend |-> "neutral"],
                      social |-> [score |-> 50 * U, trend |-> "neutral", volume |-> U],
                      market |-> [dominance |-> 50 * U, flow |-> "stable"]]],
                predictions |-> getDefaultPredictions(Dollars(DefaultPrice)),
                riskAnalysis |->
                  [overall |-> 50 * U,
                   factors |-> [technical |-> 50 * U, fundamental |-> 50 * U,
                                sentiment |-> 50 * U, market |-> 50 * U],
                   warnings |-> <<DefaultMessage>>],
                tradingStrategy |->
                    Strategy("Hold", 50 * U, "Medium-term", <<DefaultMessage>>)]]

getDefaultAnalysis(crypto) ==
    DefaultAnalysisWith(getDefaultMarketPhase(Dollars(DefaultPrice), crypto))

\* ------------------------------------------------------------------------
\* The responses of the external collaborators
\* ------------------------------------------------------------------------
\* Series lengths go up to the 200-point threshold plus MaxExtraPoints.
MaxExtraPoints == 1

Ramp(n, start, step) == Tup([i \in 1..n |-> start + (i - 1) * step])

PriceShapes == {"rising", "flat", "falling", "cheap", "pennies", "crash", "choppy"}

\* Valid daily closes: $100 rising by $0.20; $100 flat; $140 falling by
\* $0.20; $0.10 flat; $7 falling by $0.02; rising with a 3% drop on each of
\* the last five days; $100 and $104 in turn; $100 and $120 in turn.
PriceSeries(shape, n) ==
    CASE shape = "rising" -> Ramp(n, Dollars(100), 2000)
      [] shape = "choppy" -> Tup([i \in 1..n |-> Dollars(IF i % 2 = 1 THEN 100 ELSE 104)])
      [] shape = "wild" -> Tup([i \in 1..n |-> Dollars(IF i % 2 = 1 THEN 100 ELSE 120)])
      [] shape = "flat" -> Ramp(n, Dollars(100), 0)
      [] shape = "falling" -> Ramp(n, Dollars(140), 0 - 2000)
      [] shape = "cheap" -> Ramp(n, 1000, 0)
      [] shape = "pennies" -> Ramp(n, Dollars(7), 0 - 200)
      [] shape = "crash" ->
            Tup([i \in 1..n |->
                    LET p == Dollars(100) + (i - 1) * 2000
                    IN IF i > n - 5 THEN MulDivNat(p, 100 - 3 * (i - (n - 5)), 100)
                       ELSE p])

VolumeShapes == {"constant", "zero", "spike", "missing"}

VolumeSeries(shape, n) ==
    CASE shape = "constant" -> Ramp(n, 1000, 0)
      [] shape = "zero" -> Ramp(n, 0, 0)
      [] shape = "spike" -> [i \in 1..n |-> IF i = n THEN 5000 ELSE 1000]
      [] shape = "missing" -> <<>>

\* The snapshot returned by getHistoricalData.  isArray is FALSE for a prices
\* property that has a length but is not an array (a string); hasVolumes is
\* FALSE for a snapshot without volumes; no snapshot carries current_price.
Snapshot(prices, volumeShape) ==
    [kind |-> "data", prices |-> prices, isArray |-> TRUE,
     volumes |-> VolumeSeries(volumeShape, Len(prices)),
     hasVolumes |-> volumeShape # "missing", current_price |-> Undefined]

HistoricalThrows ==
    [kind |-> "throw", prices |-> <<>>, isArray |-> FALSE, volumes |-> <<>>,
     hasVolumes |-> FALSE, current_price |-> Undefined]
HistoricalNull == [HistoricalThrows EXCEPT !.kind = "null"]

\* One element of a series replaced.
WithElement(prices, i, x) == [prices EXCEPT ![i] = x]

LongLengths == 200..(200 + MaxExtraPoints)

HistoricalResponses ==
    {HistoricalThrows, HistoricalNull,
     [Snapshot(PriceSeries("flat", 200), "constant") EXCEPT !.isArray = FALSE]}
    \cup {Snapshot(PriceSeries("flat", n), "constant") : n \in {1, 19, 20, 199}}
    \cup {Snapshot(PriceSeries("flat", 20), "zero"),
          Snapshot(PriceSeries("crash", 20), "constant")}
    \cup {Snapshot(PriceSeries("rising", n), "constant") : n \in LongLengths}
    \cup {Snapshot(PriceSeries(shape, 200), "constant") : shape \in PriceShapes}
    \cup {Snapshot(PriceSeries("rising", 200), shape) : shape \in VolumeShapes}
    \cup {Snapshot(WithElement(PriceSeries("rising", 200), 1, x), "constant") :
              x \in {PosInf, 0}}
    \cup {Snapshot(WithElement(PriceSeries("rising", 200), 100, x), "constant") :
              x \in {NaN, NonNumeric, 0 - Dollars(100)}}
    \cup {Snapshot(WithElement(PriceSeries("rising", 200), 200, x), "constant") :
              x \in {0, PosInf}}

TrendOutputs == {0 - 8000, 2000, 15000}
TrendResponses == {TrendThrows} \cup {TrendValue(x) : x \in TrendOutputs}

SentimentThrows == [kind |-> "throw", items |-> <<>>]
SentimentNull == [kind |-> "null", items |-> <<>>]
SentimentArray(items) == [kind |-> "array", items |-> items]
\* The records are the provider's: volume is a number the service does not
\* bound (80 and 250 here).
SentimentResponses ==
    {SentimentThrows, SentimentNull,
     SentimentArray(<<[volume |-> 80 * U, sentiment |-> "positive"]>>),
     SentimentArray(<<[volume |-> 250 * U, sentiment |-> "positive"]>>)}

NewsThrows == [kind |-> "throw", news |-> <<>>]
NewsNull == [kind |-> "null", news |-> <<>>]
NewsNotArray == [kind |-> "notArray", news |-> <<>>]
NewsList(items) == [kind |-> "news", news |-> items]
NewsResponses ==
    {NewsThrows, NewsNull, NewsNotArray,
     NewsList(<<"positive", "positive", "negative">>)}

PredictorThrows == [kind |-> "throw", low |-> NaN, high |-> NaN]
PredictorOutput(low, high) == [kind |-> "value", low |-> low, high |-> high]
\* The model predicts the pair [low, high]: a spread of 10% around 1, or the
\* degenerate pair [0, 0], whose spread is 0 / 0.
PredictorResponses == {PredictorThrows, PredictorOutput(9500, 10500), PredictorOutput(0, 0)}

StrategyThrows == [kind |-> "throw", strategy |-> NoStrategy]
StrategyResolves(strategy) == [kind |-> strategy.kind, strategy |-> strategy]
StrategyResponses ==
    {StrategyThrows, StrategyResolves(NoStrategy),
     StrategyResolves(Strategy("Buy", 70 * U, "Short-term", <<"Momentum">>))}

\* "Bitcoin" has an entry in the table of getDefaultMarketPhase after
\* toLowerCase, "dogecoin" has none, "constructor" names a property that
\* every object inherits.
AssetIds == {"Bitcoin", "dogecoin", "constructor"}

\* ------------------------------------------------------------------------
\* getFullAnalysis (identical in both service definitions)
\* ------------------------------------------------------------------------
\* One call of getFullAnalysis(crypto) on service definition variant.  pc is
\* the await the call is suspended at; calls is the log of the external
\* interactions so far; the other variables are the locals of the call, the
\* way it ended and the report it returned.
\* suspended is the other call of getFullAnalysis on the same service
\* object, waiting at an await with its own locals, when there is one.
VARIABLES variant, crypto, pc, calls, historicalData, technicalSignals,
          marketCondition, sentiment, newsData, predictions, riskAnalysis,
          sentimentAnalysis, outcome, report, suspended

vars == <<variant, crypto, pc, calls, historicalData, technicalSignals,
          marketCondition, sentiment, newsData, predictions, riskAnalysis,
          sentimentAnalysis, outcome, report, suspended>>

\* A local that was not assigned yet.
Unset == [kind |-> "unset"]

Init ==
    /\ variant \in {1, 2}
    /\ crypto \in AssetIds
    /\ pc = "getHistoricalData"
    /\ calls = <<>>
    /\ historicalData = Unset
    /\ technicalSignals = Unset
    /\ marketCondition = Unset
    /\ sentiment = Unset
    /\ newsData = Unset
    /\ predictions = Unset
    /\ riskAnalysis = Unset
    /\ sentimentAnalysis = Unset
    /\ outcome = "pending"
    /\ report = Unset
    /\ suspended = Unset

\* processedData of a snapshot that passed the first validation.
ProcessedData(h) ==
    [prices |-> h.prices,
     isArray |-> h.isArray,
     volumes |-> IF h.hasVolumes THEN h.volumes ELSE Ramp(Len(h.prices), 0, 0),
     current_price |-> IF Falsy(h.current_price) THEN Last(h.prices)
                       ELSE h.current_price]

\* return this.getDefaultAnalysis(crypto), in the try block or in the catch
\* block: a throw of getDefaultAnalysis in the try block is caught and
\* getDefaultAnalysis throws again in the catch block, so that the call
\* rejects.
ReturnOf(default) ==
    /\ pc' = "done"
    /\ outcome' = IF default.kind = "throw" THEN "rejected" ELSE "returned"
    /\ report' = IF default.kind = "throw" THEN Unset ELSE default.value

ReturnDefault == ReturnOf(getDefaultAnalysis(crypto))

\* A call that never returns control.
Hang ==
    /\ pc' = "hung"
    /\ outcome' = "hung"
    /\ report' = report

Called(op, response) == calls' = Append(calls, [op |-> op, kind |-> response.kind])

\* calculateTechnicalSignals on the processed data.
SignalsOfData(processedData) ==
    calculateTechnicalSignals(variant, processedData, processedData.volumes)

\* AfterSignals keeping the signals in a place both calls share: a call
\* takes over the signals the other call has computed.
AfterSignalsShared(signals) ==
    IF signals.kind = "throw"
    THEN ReturnDefault /\ UNCHANGED technicalSignals
    ELSE IF signals.kind = "hang"
    THEN Hang /\ UNCHANGED technicalSignals
    ELSE /\ technicalSignals' = IF suspended # Unset /\ suspended.technicalSignals # Unset
                                THEN suspended.technicalSignals ELSE signals.value
         /\ pc' = "trendModel"
         /\ UNCHANGED <<outcome, report>>

\* AfterSignals going on to getSentiment without calculateMarketPhase.
AfterSignalsToSentiment(signals) ==
    IF signals.kind = "throw"
    THEN ReturnDefault /\ UNCHANGED technicalSignals
    ELSE IF signals.kind = "hang"
    THEN Hang /\ UNCHANGED technicalSignals
    ELSE /\ technicalSignals' = signals.value
         /\ pc' = "getSentiment"
         /\ UNCHANGED <<outcome, report>>

\* getFullAnalysis from the result of calculateTechnicalSignals to the await
\* in analyzeTrendStrength.
AfterSignals(signals) ==
    IF signals.kind = "throw"
    THEN ReturnDefault /\ UNCHANGED technicalSignals
    ELSE IF signals.kind = "hang"
    THEN Hang /\ UNCHANGED technicalSignals
    ELSE /\ technicalSignals' = signals.value
         /\ pc' = "trendModel"
         /\ UNCHANGED <<outcome, report>>

\* await api.getHistoricalData(crypto), the two validations and
\* calculateTechnicalSignals, up to the await in analyzeTrendStrength.
GetHistoricalData(response) ==
    /\ pc = "getHistoricalData"
    /\ Called("getHistoricalData", response)
    /\ historicalData' = response
    /\ UNCHANGED <<suspended, variant, crypto, marketCondition, sentiment, newsData,
                   predictions, riskAnalysis, sentimentAnalysis>>
    /\ IF \/ response.kind # "data"
          \/ Len(response.prices) < 20
          \/ Falsy(ProcessedData(response).current_price)
       THEN ReturnDefault /\ UNCHANGED technicalSignals
       ELSE AfterSignals(SignalsOfData(ProcessedData(response)))

\* calculateMarketPhase on the processed data.
PhaseOfData(processedData, response) ==
    calculateMarketPhase(variant, processedData.prices, processedData.volumes,
                         crypto, response)

\* getFullAnalysis from the result of calculateMarketPhase to
\* await api.getSentiment(crypto).
AfterPhase(phase) ==
    IF phase.kind = "throw"
    THEN ReturnDefault /\ UNCHANGED marketCondition
    ELSE IF phase.kind = "hang"
    THEN Hang /\ UNCHANGED marketCondition
    ELSE /\ marketCondition' = phase.value
         /\ pc' = "getSentiment"
         /\ UNCHANGED <<outcome, report>>

\* The trend model answers analyzeTrendStrength; calculateMarketPhase runs to
\* its end and getFullAnalysis up to await api.getSentiment(crypto).
TrendModelRespond(response) ==
    /\ pc = "trendModel"
    /\ Called("trendModel", response)
    /\ UNCHANGED <<suspended, variant, crypto, historicalData, technicalSignals, sentiment,
                   newsData, predictions, riskAnalysis, sentimentAnalysis>>
    /\ AfterPhase(PhaseOfData(ProcessedData(historicalData), response))

\* await api.getSentiment(crypto)
GetSentiment(response) ==
    /\ pc = "getSentiment"
    /\ Called("getSentiment", response)
    /\ UNCHANGED <<suspended, variant, crypto, historicalData, technicalSignals,
                   marketCondition, newsData, predictions, riskAnalysis,
                   sentimentAnalysis>>
    /\ IF response.kind = "throw"
       THEN ReturnDefault /\ UNCHANGED sentiment
       ELSE /\ sentiment' = response
            /\ pc' = "getNews"
            /\ UNCHANGED <<outcome, report>>

PredictionDataOf(processedData) ==
    [prices |-> processedData.prices,
     volumes |-> processedData.volumes,
     currentPrice |-> processedData.current_price,
     volatility |-> technicalSignals.volatility.current,
     sentiment |-> SentimentVolume(sentiment)]

\* The argument of predictPriceTargets.
PredictionData == PredictionDataOf(ProcessedData(historicalData))

\* sentiment?.[0]?.sentiment || 'neutral'
SocialTrend ==
    IF sentiment.kind = "array" /\ Len(sentiment.items) > 0
    THEN sentiment.items[1].sentiment ELSE "neutral"

SectionOf(score, signal, newsScore, newsTrend) ==
    [overall |->
       [score |-> score,
        signal |-> signal,
        confidence |->
            calculateConfidence(
                <<JSMulK(technicalSignals.trend.strength, 100, 1), newsScore>>)],
     components |->
       [news |-> [score |-> newsScore, trend |-> newsTrend],
        social |-> [score |-> SentimentVolume(sentiment),
                    trend |-> SocialTrend,
                    volume |-> technicalSignals.volume.change],
        market |->
          [dominance |-> JSMulK(technicalSignals.trend.strength, 100, 1),
           flow |-> IF JSGt(technicalSignals.volume.change, U)
                    THEN "inflow" ELSE "outflow"]]]

SectionWith(news, items, score, signal) ==
    IF score.kind = "throw" \/ signal.kind = "throw" \/ news.kind = "notArray"
    THEN [kind |-> "throw"]
    ELSE [kind |-> "ok",
          value |-> SectionOf(score.value, signal.value,
                              calculateNewsScore(items), calculateNewsTrend(items))]

\* The sentimentAnalysis section of the return expression, in the order of
\* its evaluation: determineSentimentSignal throws on a null sentiment,
\* (newsData?.news || []).slice throws on a news property without slice.
SentimentSection(news) ==
    SectionWith(news, NewsItems(news),
                calculateSentimentScore(NewsItems(news), sentiment),
                determineSentimentSignal(sentiment))

\* The arguments of analyzeRisk.
TechnicalData(processedData) ==
    [prices |-> processedData.prices,
     volumes |-> processedData.volumes,
     volatility |-> technicalSignals.volatility.current,
     trendStrength |-> technicalSignals.trend.strength]

RiskOfData(news) ==
    analyzeRisk(TechnicalData(ProcessedData(historicalData)),
                [news |-> NewsItems(news), sentiment |-> sentiment])

AfterRisk(risk, section) ==
    IF risk.kind = "throw" \/ section.kind = "throw"
    THEN ReturnDefault /\ UNCHANGED <<riskAnalysis, sentimentAnalysis>>
    ELSE /\ riskAnalysis' = risk.value
         /\ sentimentAnalysis' = section.value
         /\ pc' = "generateStrategy"
         /\ UNCHANGED <<outcome, report>>

\* From the return of predictPriceTargets to the await of
\* strategyGenerator.generateStrategy: analyzeRisk, then the return
\* expression up to the tradingStrategy property.
AfterPredictions(news) == AfterRisk(RiskOfData(news), SentimentSection(news))

\* await api.getNews(crypto); in the first service definition
\* predictPriceTargets has no await and the call goes on to
\* generateStrategy, in the second it stops at the predictor model.
GetNews(response) ==
    /\ pc = "getNews"
    /\ Called("getNews", response)
    /\ UNCHANGED <<suspended, variant, crypto, historicalData, technicalSignals,
                   marketCondition, sentiment>>
    /\ IF response.kind = "throw"
       THEN ReturnDefault
            /\ UNCHANGED <<newsData, predictions, riskAnalysis, sentimentAnalysis>>
       ELSE /\ newsData' = response
            /\ IF variant = 1
               THEN /\ predictions' = predictPriceTargets1(PredictionData)
                    /\ AfterPredictions(response)
               ELSE /\ pc' = "predictorModel"
                    /\ UNCHANGED <<predictions, riskAnalysis, sentimentAnalysis,
                                   outcome, report>>

\* Second service definition: the model answers getTrendModel and the three
\* predict calls of predictPriceTargets.
PredictorModelRespond(response) ==
    /\ pc = "predictorModel"
    /\ Called("predictorModel", response)
    /\ UNCHANGED <<suspended, variant, crypto, historicalData, technicalSignals,
                   marketCondition, sentiment, newsData>>
    /\ predictions' = predictPriceTargets2(PredictionData, response)
    /\ AfterPredictions(newsData)

\* await strategyGenerator.generateStrategy(...) and the return.
GenerateStrategy(response) ==
    /\ pc = "generateStrategy"
    /\ Called("generateStrategy", response)
    /\ UNCHANGED <<suspended, variant, crypto, historicalData, technicalSignals,
                   marketCondition, sentiment, newsData, predictions,
                   riskAnalysis, sentimentAnalysis>>
    /\ IF response.kind = "throw"
       THEN ReturnDefault
       ELSE /\ pc' = "done"
            /\ outcome' = "returned"
            /\ report' = [marketCondition |-> marketCondition,
                          technicalSignals |-> technicalSignals,
                          sentimentAnalysis |-> sentimentAnalysis,
                          predictions |-> predictions,
                          riskAnalysis |-> riskAnalysis,
                          tradingStrategy |-> response.strategy]

Next ==
    \/ \E response \in HistoricalResponses : GetHistoricalData(response)
    \/ \E response \in TrendResponses : TrendModelRespond(response)
    \/ \E response \in SentimentResponses : GetSentiment(response)
    \/ \E response \in NewsResponses : GetNews(response)
    \/ \E response \in PredictorResponses : PredictorModelRespond(response)
    \/ \E response \in StrategyResponses : GenerateStrategy(response)

Spec == Init /\ [][Next]_vars

\* ------------------------------------------------------------------------
\* Two calls of getFullAnalysis in flight on the one exported service
\* object.  The service class declares no field and the module no variable:
\* what a call works on are its parameters and its locals.  JavaScript runs
\* one call at a time and passes control at an await, so at every await the
\* running call may be suspended and the other one resumed.
\* ------------------------------------------------------------------------
\* The parameters and locals of the running call.
Frame ==
    [crypto |-> crypto, pc |-> pc, calls |-> calls,
     historicalData |-> historicalData, technicalSignals |-> technicalSignals,
     marketCondition |-> marketCondition, sentiment |-> sentiment,
     newsData |-> newsData, predictions |-> predictions,
     riskAnalysis |-> riskAnalysis, sentimentAnalysis |-> sentimentAnalysis,
     outcome |-> outcome, report |-> report]

\* A call of getFullAnalysis(c) that has not run yet.
NewFrame(c) ==
    [crypto |-> c, pc |-> "getHistoricalData", calls |-> <<>>,
     historicalData |-> Unset, technicalSignals |-> Unset,
     marketCondition |-> Unset, sentiment |-> Unset, newsData |-> Unset,
     predictions |-> Unset, riskAnalysis |-> Unset, sentimentAnalysis |-> Unset,
     outcome |-> "pending", report |-> Unset]

\* Each party answers a call by its argument: the snapshot, the sentiment
\* and the news are those of the asset, and the models and the strategy
\* generator compute their answer from what they are given.
HistoricalAnswer(c) ==
    CASE c = "Bitcoin" -> Snapshot(PriceSeries("rising", 200), "constant")
      [] c = "dogecoin" -> Snapshot(PriceSeries("choppy", 200), "constant")
      [] OTHER -> Snapshot(PriceSeries("crash", 20), "constant")

TrendAnswer(c) ==
    CASE c = "Bitcoin" -> TrendValue(15000)
      [] c = "dogecoin" -> TrendValue(2000)
      [] OTHER -> TrendValue(0 - 8000)

SentimentAnswer(c) ==
    CASE c = "Bitcoin" -> SentimentArray(<<[volume |-> 80 * U, sentiment |-> "positive"]>>)
      [] c = "dogecoin" -> SentimentArray(<<[volume |-> 250 * U, sentiment |-> "positive"]>>)
      [] OTHER -> SentimentNull

NewsAnswer(c) ==
    CASE c = "Bitcoin" -> NewsList(<<"positive", "positive", "negative">>)
      [] c = "dogecoin" -> NewsList(<<"negative">>)
      [] OTHER -> NewsNull

PredictorAnswer(c) ==
    CASE c = "Bitcoin" -> PredictorOutput(9500, 10500)
      [] c = "dogecoin" -> PredictorOutput(0, 0)
      [] OTHER -> PredictorThrows

StrategyAnswer(c) ==
    CASE c = "Bitcoin" ->
            StrategyResolves(Strategy("Buy", 70 * U, "Short-term", <<"Momentum">>))
      [] c = "dogecoin" -> StrategyResolves(NoStrategy)
      [] OTHER -> StrategyThrows

\* Both calls are made on the same service object, each with its asset.
InterleavedInit ==
    /\ variant \in {1, 2}
    /\ crypto \in AssetIds
    /\ pc = "getHistoricalData"
    /\ calls = <<>>
    /\ historicalData = Unset
    /\ technicalSignals = Unset
    /\ marketCondition = Unset
    /\ sentiment = Unset
    /\ newsData = Unset
    /\ predictions = Unset
    /\ riskAnalysis = Unset
    /\ sentimentAnalysis = Unset
    /\ outcome = "pending"
    /\ report = Unset
    /\ suspended \in {NewFrame(c) : c \in AssetIds}

\* Control passes from the running call, at an await or at its end, to the
\* other call.  A call in a loop that never ends keeps control.
Switch ==
    /\ suspended # Unset
    /\ pc # "hung"
    /\ suspended' = Frame
    /\ crypto' = suspended.crypto
    /\ pc' = suspended.pc
    /\ calls' = suspended.calls
    /\ historicalData' = suspended.historicalData
    /\ technicalSignals' = suspended.technicalSignals
    /\ marketCondition' = suspended.marketCondition
    /\ sentiment' = suspended.sentiment
    /\ newsData' = suspended.newsData
    /\ predictions' = suspended.predictions
    /\ riskAnalysis' = suspended.riskAnalysis
    /\ sentimentAnalysis' = suspended.sentimentAnalysis
    /\ outcome' = suspended.outcome
    /\ report' = suspended.report
    /\ UNCHANGED variant

InterleavedNext ==
    \/ GetHistoricalData(HistoricalAnswer(crypto))
    \/ TrendModelRespond(TrendAnswer(crypto))
    \/ GetSentiment(SentimentAnswer(crypto))
    \/ GetNews(NewsAnswer(crypto))
    \/ PredictorModelRespond(PredictorAnswer(crypto))
    \/ GenerateStrategy(StrategyAnswer(crypto))
    \/ Switch

Interleaved == InterleavedInit /\ [][InterleavedNext]_vars

\* ------------------------------------------------------------------------
\* One direct call of a private function of the service, on arguments drawn
\* from small sets: calls logs the call and its arguments, report holds what
\* the function returned.
\* ------------------------------------------------------------------------
DirectInit ==
    /\ variant \in {1, 2}
    /\ crypto = "Bitcoin"
    /\ pc = "direct"
    /\ calls = <<>>
    /\ historicalData = Unset
    /\ technicalSignals = Unset
    /\ marketCondition = Unset
    /\ sentiment = Unset
    /\ newsData = Unset
    /\ predictions = Unset
    /\ riskAnalysis = Unset
    /\ sentimentAnalysis = Unset
    /\ outcome = "pending"
    /\ report = Unset
    /\ suspended = Unset

\* The function op of service definition v was called on args and returned
\* value.
DirectCall(v, op, args, value) ==
    /\ pc = "direct"
    /\ variant = v
    /\ pc' = "done"
    /\ outcome' = "returned"
    /\ calls' = <<[op |-> op, kind |-> "direct", args |-> args]>>
    /\ report' = [kind |-> "result", value |-> value]
    /\ UNCHANGED <<suspended, variant, crypto, historicalData, technicalSignals,
                   marketCondition, sentiment, newsData, predictions,
                   riskAnalysis, sentimentAnalysis>>

\* The function op was called directly.
DirectlyCalled(op) == pc = "done" /\ Len(calls) = 1 /\ calls[1].op = op

\* Current prices: $0.10, $100, $5000.
DirectPrices == {1000, Dollars(100), Dollars(5000)}

\* Volatilities of [0, 100] (percent).
DirectVolatilities == {0, 13 * U, 50 * U, 100 * U}

\* sentiment?.[0]?.volume || 50: the volume of the first sentiment record,
\* which the provider does not bound.
DirectSentiments == {U, 50 * U, 80 * U, 2000 * U}

\* Price histories of 20 points.
DirectHistories == {PriceSeries(shape, 20) : shape \in {"rising", "flat", "falling", "crash"}}

PredictionArguments ==
    [prices : DirectHistories, currentPrice : DirectPrices,
     volatility : DirectVolatilities, sentiment : DirectSentiments]

\* predictPriceTargets of the first service definition
DirectPredictPriceTargets(data) ==
    DirectCall(1, "predictPriceTargets", data, predictPriceTargets1(data))

\* currentPrice, prices and volatility of a call of calculatePriceTargets
PriceTargetArguments ==
    [prices : DirectHistories, currentPrice : {Dollars(100), Dollars(120)},
     volatility : DirectVolatilities]

\* calculatePriceTargets of the second service definition, with the support
\* and the resistance predictPriceTargets passes
DirectCalculatePriceTargets(args) ==
    DirectCall(2, "calculatePriceTargets", args,
               calculatePriceTargets(args.currentPrice, args.prices, args.volatility,
                                     JSMinSeq(SliceLast(args.prices, 20)),
                                     JSMaxSeq(SliceLast(args.prices, 20))))

\* Series of numbers for the indicators: valid closes of 0 to 20 points,
\* and a rising series with a last or a middle element that is NaN,
\* Infinity, 0 or negative.
IndicatorSeries ==
    {PriceSeries(shape, n) :
        shape \in {"rising", "flat", "falling", "crash", "choppy", "wild"},
        n \in {0, 1, 2, 3, 15, 16, 20}}
    \cup {WithElement(PriceSeries("rising", 16), i, x) :
              i \in {8, 16}, x \in {NaN, PosInf, 0, 0 - Dollars(100)}}

\* period: the default of 14 and two short ones
Periods == {1, 2, 14}

DirectCalculateRSI(prices, period) ==
    DirectCall(1, "calculateRSI", [prices |-> prices, period |-> period],
               calculateRSI(prices, period))

\* calculateVolatility on a series of numbers, or on a series with an
\* element that is not a number
DirectCalculateVolatility(prices) ==
    DirectCall(1, "calculateVolatility", [prices |-> prices], calculateVolatility(prices))

\* The call of op on args never returns.
DirectHang(v, op, args) ==
    /\ pc = "direct"
    /\ variant = v
    /\ Hang
    /\ calls' = <<[op |-> op, kind |-> "direct", args |-> args]>>
    /\ UNCHANGED <<suspended, variant, crypto, historicalData, technicalSignals,
                   marketCondition, sentiment, newsData, predictions,
                   riskAnalysis, sentimentAnalysis>>

\* Three closes: one per bucket rising, falling or unordered, all in one
\* bucket, and closes below $5, whose bucket key is 0.
ProfilePrices ==
    {<<Dollars(100), Dollars(110), Dollars(120)>>,
     <<Dollars(120), Dollars(110), Dollars(100)>>,
     <<Dollars(110), Dollars(100), Dollars(120)>>,
     <<Dollars(100), Dollars(101), Dollars(102)>>,
     <<Dollars(2), Dollars(12), Dollars(22)>>,
     <<Dollars(12), Dollars(2), Dollars(3)>>}

\* Three non-negative volumes, zeros included.
ProfileVolumes == [1..3 -> {0, 1000, 5000}]

\* The profile calculateVolumeProfile computed, or the loop that never ends.
DirectProfile(args, profile) ==
    IF profile.hang THEN DirectHang(1, "calculateVolumeProfile", args)
    ELSE DirectCall(1, "calculateVolumeProfile", args, profile)

DirectCalculateVolumeProfile(prices, volumes) ==
    DirectProfile([prices |-> prices, volumes |-> volumes],
                  calculateVolumeProfile(prices, volumes))

\* Three closes with each choice of volumes, and seven closes of seven
\* buckets with equal volumes, a peak in the middle or a peak at the end.
ProfileArguments ==
    {[prices |-> prices, volumes |-> Tup(volumes)] :
        prices \in ProfilePrices, volumes \in ProfileVolumes}
    \cup {[prices |-> Ramp(7, Dollars(100), Dollars(10)), volumes |-> volumes] :
              volumes \in {<<1000, 1000, 1000, 1000, 1000, 1000, 1000>>,
                           <<1000, 1000, 1000, 5000, 1000, 1000, 1000>>,
                           <<1000, 1000, 1000, 1000, 1000, 1000, 5000>>}}

\* Values of the current price and of the three averages.
LevelValues == {0, Dollars(90), Dollars(100), Dollars(110), PosInf}

PhaseDecision(t) == [rules |-> RulesOfStructure(t), phase |-> PhaseOfStructure(t)]

\* The phase decision of the first definition on a price and three averages.
DirectPhaseDecision(args) ==
    DirectCall(1, "calculateMarketPhase.phase", args,
               PhaseDecision(TrendStructure(args.price, args.ma20, args.ma50, args.ma200)))

DirectCalculateADX(prices) ==
    DirectCall(1, "calculateADX", [prices |-> prices], calculateADX(prices, 14))

\* Valid series of 200 points and more.
LongSeries == {PriceSeries(shape, n) : shape \in PriceShapes, n \in LongLengths}

\* The three averages calculateMarketPhase of the first definition reads.
DirectMovingAverages(prices) ==
    DirectCall(1, "calculateMarketPhase.averages", [prices |-> prices],
               [ma20 |-> MovingAverage1(prices, 20),
                ma50 |-> MovingAverage1(prices, 50),
                ma200 |-> MovingAverage1(prices, 200)])

DirectNext ==
    \/ \E args \in ProfileArguments :
          DirectCalculateVolumeProfile(args.prices, args.volumes)
    \/ \E prices \in IndicatorSeries
                        \cup {WithElement(PriceSeries("rising", 16), 8, NonNumeric)} :
          DirectCalculateVolatility(prices)
    \/ \E data \in PredictionArguments : DirectPredictPriceTargets(data)
    \/ \E prices \in IndicatorSeries, period \in Periods : DirectCalculateRSI(prices, period)
    \/ \E args \in PriceTargetArguments : DirectCalculatePriceTargets(args)
    \/ \E prices \in LongSeries : DirectMovingAverages(prices)
    \/ \E prices \in IndicatorSeries : DirectCalculateADX(prices)
    \/ \E args \in [price : LevelValues, ma20 : LevelValues,
                    ma50 : LevelValues, ma200 : LevelValues] : DirectPhaseDecision(args)

Direct == DirectInit /\ [][DirectNext]_vars

\* ------------------------------------------------------------------------
\* Properties of getFullAnalysis and calculateMarketPhase
\* ------------------------------------------------------------------------
\* The call returned a report.
Returned == pc = "done" /\ outcome = "returned"

\* The returned report is the report of getDefaultAnalysis(crypto).
IsDefaultReport ==
    /\ getDefaultAnalysis(crypto).kind = "ok"
    /\ report = getDefaultAnalysis(crypto).value

\* Some external call threw.
SomeCallThrew == \E i \in 1..Len(calls) : calls[i].kind = "throw"

\* Every external call made so far returned well-formed data.
EveryCallSucceeded ==
    \A i \in 1..Len(calls) :
        calls[i].kind \in {"data", "value", "array", "news", "object"}

\* The trend model answered analyzeTrendStrength with a scalar, and
\* calculateMarketPhase returned from its try block.
PhaseComputed ==
    /\ marketCondition # Unset
    /\ \E i \in 1..Len(calls) :
          calls[i].op = "trendModel" /\ calls[i].kind = "value"

\* calculateMarketPhase returned getDefaultMarketPhase from its catch block.
PhaseFellBack ==
    /\ marketCondition # Unset
    /\ \E i \in 1..Len(calls) :
          calls[i].op = "trendModel" /\ calls[i].kind = "throw"

\* A fetched series whose elements are all positive and finite.
ValidPrices(h) ==
    /\ h.kind = "data"
    /\ h.isArray
    /\ \A i \in 1..Len(h.prices) : IsNum(h.prices[i]) /\ h.prices[i] > 0

\* ... with an index-aligned series of non-negative volumes.
ValidSnapshot(h) ==
    /\ ValidPrices(h)
    /\ h.hasVolumes
    /\ Len(h.volumes) = Len(h.prices)
    /\ \A i \in 1..Len(h.volumes) : IsNum(h.volumes[i]) /\ h.volumes[i] >= 0

\* A fetched series with an element that is non-positive, NaN, non-numeric
\* or infinite.
HasBadElement(h) ==
    /\ h.kind = "data"
    /\ \E i \in 1..Len(h.prices) : ~IsNum(h.prices[i]) \/ h.prices[i] <= 0

\* A fetched series whose volumes are all zero, or missing.
ZeroVolumes(h) ==
    /\ h.kind = "data"
    /\ Len(h.prices) > 0
    /\ \/ ~h.hasVolumes
       \/ \A i \in 1..Len(h.volumes) : h.volumes[i] = 0

\* strongSupport <= support <= pivot <= resistance <= strongResistance
Ordered(keyLevels) ==
    /\ JSLe(keyLevels.strongSupport, keyLevels.support)
    /\ JSLe(keyLevels.support, keyLevels.pivot)
    /\ JSLe(keyLevels.pivot, keyLevels.resistance)
    /\ JSLe(keyLevels.resistance, keyLevels.strongResistance)

\* The fixed label set of each service definition.
PhaseLabels(v) ==
    IF v = 1
    THEN {"bullish", "bearish", "correction", "recovery", "sideways", "neutral"}
    ELSE {"markup", "markdown", "accumulation", "distribution", "sideways"}

\* C1: whatever the asset id and whatever the external collaborators do,
\* getFullAnalysis completes (it never hangs), never rejects, and the report
\* it returns has its six sections, the trading strategy among them,
\* populated.
C1_AlwaysACompleteReport ==
    /\ outcome \notin {"rejected", "hung"}
    /\ Returned =>
         /\ DOMAIN report = {"marketCondition", "technicalSignals",
                             "sentimentAnalysis", "predictions", "riskAnalysis",
                             "tradingStrategy"}
         /\ report.tradingStrategy.kind = "object"

\* C2: when a stage of getFullAnalysis failed, the returned report is exactly
\* the report of getDefaultAnalysis: no report mixes a defaulted section with
\* sections computed from the data.
C2_FailureGivesTheDefaultReport ==
    Returned /\ SomeCallThrew => IsDefaultReport

\* C3: when the provider returned at least 20 positive finite prices with
\* aligned non-negative volumes and every external call succeeded, the call
\* returns the technical signals computed from the series, not the default
\* report; a valid series of exactly 20 points is analysed.
C3_TwentyValidPointsAreAnalysed ==
    (/\ Returned
     /\ ValidSnapshot(historicalData)
     /\ Len(historicalData.prices) >= 20
     /\ EveryCallSucceeded)
    => /\ technicalSignals # Unset
       /\ report.technicalSignals = technicalSignals

\* C4: when an element of the fetched price series is non-positive, NaN,
\* non-numeric or infinite, the returned report is the default report.
C4_BadElementGivesTheDefaultReport ==
    Returned /\ HasBadElement(historicalData) => IsDefaultReport

\* C5: when the fetched price series has a single point, or the volumes are
\* all zero or missing, the returned report is exactly the default report.
C5_SinglePointOrZeroVolumesGiveTheDefaultReport ==
    (/\ Returned
     /\ historicalData.kind = "data"
     /\ Len(historicalData.prices) = 1 \/ ZeroVolumes(historicalData))
    => IsDefaultReport

\* C6: in the first service definition, for a series of at least 200 positive
\* finite prices, the keyLevels that calculateMarketPhase computed are in
\* order: strongSupport <= support <= pivot <= resistance <= strongResistance.
C6_ComputedKeyLevelsAreOrdered ==
    (/\ variant = 1
     /\ PhaseComputed
     /\ ValidPrices(historicalData)
     /\ Len(historicalData.prices) >= 200)
    => Ordered(marketCondition.keyLevels)

\* C7: in the first service definition, for a series of positive finite
\* prices of any magnitude, the rounded keyLevels that calculateMarketPhase
\* reports have resistance strictly above support.
C7_ResistanceAboveSupport ==
    variant = 1 /\ PhaseComputed /\ ValidPrices(historicalData)
    => JSGt(marketCondition.keyLevels.resistance, marketCondition.keyLevels.support)

\* C8: the market condition of getDefaultMarketPhase, in the default report
\* (fixed default price) and after a classification failure (last price), has
\* its keyLevels in order for every asset id.
C8_FallbackKeyLevelsAreOrdered ==
    /\ PhaseFellBack => Ordered(marketCondition.keyLevels)
    /\ Returned /\ IsDefaultReport => Ordered(report.marketCondition.keyLevels)

\* C9: in every report that getFullAnalysis returns, marketCondition.phase is
\* a label of the fixed set of the service definition.
C9_PhaseIsAFixedLabel ==
    Returned => report.marketCondition.phase \in PhaseLabels(variant)

\* C10: for a valid price series and a finite scalar from the trend model,
\* the strength that calculateMarketPhase returns lies in [0, 1].
C10_StrengthInUnitInterval ==
    PhaseComputed /\ ValidPrices(historicalData)
    => /\ JSLe(0, marketCondition.strength)
       /\ JSLe(marketCondition.strength, U)

\* x is a number of [30, 95] (percent).
InConfidenceRange(x) == JSLe(30 * U, x) /\ JSLe(x, 95 * U)

\* C11: for a valid price series and a finite output of the trend model, the
\* confidence of the market condition that calculateMarketPhase computed and
\* the confidence of each of the three prediction horizons, computed or
\* default, lie in [30, 95].
C11_ConfidencesInRange ==
    /\ PhaseComputed /\ ValidPrices(historicalData)
         => InConfidenceRange(marketCondition.confidence)
    /\ predictions # Unset
         => /\ InConfidenceRange(predictions.shortTerm.confidence)
            /\ InConfidenceRange(predictions.midTerm.confidence)
            /\ InConfidenceRange(predictions.longTerm.confidence)

Width(price) == JSSub(price.high, price.low)

\* C13: under the widening-range policy, for a current price > 0, a
\* volatility of [0, 100], any sentiment value and price history, the ranges
\* of predictPriceTargets after the adjustment and the 15% clamp widen with
\* the horizon: the width of shortTerm <= that of midTerm <= that of longTerm.
C13_RangesWiden ==
    DirectlyCalled("predictPriceTargets")
    => /\ JSLe(Width(report.value.shortTerm.price), Width(report.value.midTerm.price))
       /\ JSLe(Width(report.value.midTerm.price), Width(report.value.longTerm.price))

\* predictPriceTargets returned ranges of three different widths, the
\* longest horizon cut by the clamp at 115% of the current price.
C13_Witness ==
    /\ DirectlyCalled("predictPriceTargets")
    /\ calls[1].args.sentiment = 80 * U
    /\ report.value.longTerm.price.high = JSMulK(calls[1].args.currentPrice, 115, 100)
    /\ JSLt(Width(report.value.shortTerm.price), Width(report.value.midTerm.price))
    /\ JSLt(Width(report.value.midTerm.price), Width(report.value.longTerm.price))

\* 0.85 * cp <= low < high <= 1.15 * cp
WithinClamp(price, cp) ==
    /\ JSLe(JSMulK(cp, 85, 100), price.low)
    /\ JSLt(price.low, price.high)
    /\ JSLe(price.high, JSMulK(cp, 115, 100))

\* C14: under the widening-range policy, for a current price cp > 0, a
\* volatility of [0, 100], any price history and any sentiment value of the
\* provider, each horizon's range has 0.85 * cp <= low < high <= 1.15 * cp.
C14_RangesWithinClamp ==
    DirectlyCalled("predictPriceTargets")
    => /\ WithinClamp(report.value.shortTerm.price, calls[1].args.currentPrice)
       /\ WithinClamp(report.value.midTerm.price, calls[1].args.currentPrice)
       /\ WithinClamp(report.value.longTerm.price, calls[1].args.currentPrice)

\* C15: under the Fibonacci policy, with the support and the resistance the
\* minimum and the maximum of the last 20 prices and a volatility of
\* [0, 100], each of the three ranges of calculatePriceTargets has low < high.
C15_FibonacciRangesNotEmpty ==
    DirectlyCalled("calculatePriceTargets")
    => /\ JSLt(report.value.shortTerm.low, report.value.shortTerm.high)
       /\ JSLt(report.value.midTerm.low, report.value.midTerm.high)
       /\ JSLt(report.value.longTerm.low, report.value.longTerm.high)

\* None of the three warning conditions holds for the arguments analyzeRisk
\* passes to generateRiskWarnings: volatility > 50, trend strength < 0.3
\* (strengths are not negative here), volume ratio > 2.
NoWarningCondition ==
    /\ ~JSGt(technicalSignals.volatility.current, 50 * U)
    /\ ~JSLt(technicalSignals.trend.strength, 3000)
    /\ ~JSGt(LastVolumeRatio(ProcessedData(historicalData).volumes), 2 * U)

\* C16: riskAnalysis.warnings of every report returned by getFullAnalysis is
\* a non-empty list, and the warnings generateRiskWarnings returned are the
\* single message 'No significant risks detected' exactly when none of the
\* three warning conditions fires.
C16_WarningsNeverEmpty ==
    /\ Returned => Len(report.riskAnalysis.warnings) > 0
    /\ riskAnalysis # Unset
         => /\ Len(riskAnalysis.warnings) > 0
            /\ riskAnalysis.warnings = <<"No significant risks detected">>
                 <=> NoWarningCondition

\* A computed report with the single message, no condition having fired.
C16_Witness ==
    /\ Returned
    /\ riskAnalysis # Unset
    /\ report.riskAnalysis = riskAnalysis
    /\ NoWarningCondition
    /\ report.riskAnalysis.warnings = <<"No significant risks detected">>

\* x is a number of [0, 100] (percent).
InPercentRange(x) == JSLe(0, x) /\ JSLe(x, 100 * U)

\* A valid snapshot whose volumes are all positive.
PositiveVolumes(h) ==
    /\ ValidSnapshot(h)
    /\ \A i \in 1..Len(h.volumes) : h.volumes[i] > 0

\* C17: for every valid price/volume series accepted by getFullAnalysis and
\* every sentiment and news record of the provider, each of the four risk
\* factors analyzeRisk returns (technical, fundamental, sentiment, market)
\* lies in [0, 100], and so does overall, their unweighted mean.
C17_RiskFactorsInRange ==
    riskAnalysis # Unset /\ PositiveVolumes(historicalData)
    => /\ InPercentRange(riskAnalysis.factors.technical)
       /\ InPercentRange(riskAnalysis.factors.fundamental)
       /\ InPercentRange(riskAnalysis.factors.sentiment)
       /\ InPercentRange(riskAnalysis.factors.market)
       /\ InPercentRange(riskAnalysis.overall)

\* C18: for every series of numbers and every period >= 1, calculateRSI
\* returns a number of [0, 100], and exactly 50 when the series has fewer
\* than period + 1 elements.
C18_RSIInRange ==
    DirectlyCalled("calculateRSI")
    => /\ InPercentRange(report.value)
       /\ Len(calls[1].args.prices) < calls[1].args.period + 1
            => report.value = 50 * U

\* An RSI below 50 computed for the period 14 from 16 prices with gains and
\* losses.
C18_Witness ==
    /\ DirectlyCalled("calculateRSI")
    /\ calls[1].args.period = 14
    /\ Len(calls[1].args.prices) = 16
    /\ JSLt(0, report.value) /\ JSLt(report.value, 50 * U)
    /\ Average(calls[1].args.prices, 14, "gain") > 0
    /\ Average(calls[1].args.prices, 14, "loss") > 0

\* C19: calculateRSI returns exactly 100 when the series has at least
\* period + 1 elements and the Wilder-smoothed average loss is exactly 0.
C19_RSIIsHundredWithoutLoss ==
    /\ DirectlyCalled("calculateRSI")
    /\ Len(calls[1].args.prices) >= calls[1].args.period + 1
    /\ Average(calls[1].args.prices, calls[1].args.period, "loss") = 0
    => report.value = 100 * U

\* Some return Math.log(prices[i] / prices[i - 1]) is NaN or infinite: the
\* ratio is not a finite number > 0.  The annualized value is then NaN.
SomeReturnNotFinite(prices) ==
    \E i \in 2..Len(prices) :
        \/ ~IsNum(JSDiv(prices[i], prices[i - 1]))
        \/ JSDiv(prices[i], prices[i - 1]) <= 0

\* C20: calculateVolatility returns a number of [0, 100] for every series,
\* exactly 30 for a series of fewer than 2 elements, and 30 whenever the
\* annualized value it computed is NaN; any other value is clamped into
\* [0, 100].
C20_VolatilityInRange ==
    DirectlyCalled("calculateVolatility")
    => /\ InPercentRange(report.value)
       /\ Len(calls[1].args.prices) < 2 => report.value = 30 * U
       /\ SomeReturnNotFinite(calls[1].args.prices) => report.value = 30 * U

\* Twenty valid closes whose annualized volatility is above 100: the
\* function returned the upper bound.
C20_Witness ==
    /\ DirectlyCalled("calculateVolatility")
    /\ Len(calls[1].args.prices) = 20
    /\ ~SomeReturnNotFinite(calls[1].args.prices)
    /\ report.value = 100 * U

\* x is a number of [0, 1].
InUnitRange(x) == JSLe(0, x) /\ JSLe(x, U)

\* The volume accumulated in bucket k.
BucketTotal(prices, volumes, k) ==
    SumSeq([i \in 1..Len(prices) |-> IF RoundedPrice(prices[i]) = k THEN volumes[i] ELSE 0])

\* The bucket keys of a price series.
Buckets(prices) == {RoundedPrice(prices[i]) : i \in 1..Len(prices)}

\* C21: for every non-empty price series with as many non-negative volumes,
\* all-zero volumes included, calculateVolumeProfile returns a
\* buyingPressure and a sellingPressure that are numbers of [0, 1] and sum
\* to 1, and a strength that is a number of [0, 1], the volume of the point
\* of control divided by the total volume.
C21_PressuresAreFractions ==
    DirectlyCalled("calculateVolumeProfile")
    => /\ InUnitRange(report.value.buyingPressure)
       /\ InUnitRange(report.value.sellingPressure)
       /\ JSAdd(report.value.buyingPressure, report.value.sellingPressure) = U
       /\ InUnitRange(report.value.strength)
       /\ report.value.strength =
            JSDiv(BucketTotal(calls[1].args.prices, calls[1].args.volumes, report.value.poc),
                  SumSeq(calls[1].args.volumes))

\* C22: calculateVolumeProfile terminates for every non-empty price series
\* with as many non-negative volumes: the value-area loop reaches the 68%
\* target or both ends of the bucket range, also when a bucket has no volume
\* or when a bucket key is 0.
C22_ValueAreaLoopEnds ==
    ~(pc = "hung" /\ Len(calls) = 1 /\ calls[1].op = "calculateVolumeProfile")

\* The volume of the buckets of low..high.
BandVolume(prices, volumes, low, high) ==
    SumSeq([i \in 1..Len(prices) |->
              IF RoundedPrice(prices[i]) >= low /\ RoundedPrice(prices[i]) <= high
              THEN volumes[i] ELSE 0])

\* The band low..high holds at least 68% of the volume, or it spans from the
\* lowest to the highest bucket.
BandIsValueArea(prices, volumes, low, high) ==
    \/ BandVolume(prices, volumes, low, high) * 100 >= SumSeq(volumes) * 68
    \/ /\ \A k \in Buckets(prices) : low <= k
       /\ \A k \in Buckets(prices) : k <= high

\* C23: for a non-empty price series with as many non-negative volumes of a
\* positive total, when calculateVolumeProfile returns: poc is a bucket (a
\* multiple of 10) whose volume is >= that of every other bucket,
\* valueArea.low <= poc <= valueArea.high, and the buckets of
\* valueArea.low..valueArea.high hold at least 68% of the total volume or
\* the band spans from the lowest to the highest bucket.
C23_PointOfControlAndValueArea ==
    DirectlyCalled("calculateVolumeProfile") /\ SumSeq(calls[1].args.volumes) > 0
    => /\ report.value.poc \in Buckets(calls[1].args.prices)
       /\ report.value.poc % (10 * U) = 0
       /\ \A k \in Buckets(calls[1].args.prices) :
             BucketTotal(calls[1].args.prices, calls[1].args.volumes, k)
               <= BucketTotal(calls[1].args.prices, calls[1].args.volumes, report.value.poc)
       /\ report.value.valueArea.low <= report.value.poc
       /\ report.value.poc <= report.value.valueArea.high
       /\ BandIsValueArea(calls[1].args.prices, calls[1].args.volumes,
                          report.value.valueArea.low, report.value.valueArea.high)

\* A profile over seven buckets whose value area reached 68% of the volume
\* without spanning all of them.
C23_Witness ==
    /\ DirectlyCalled("calculateVolumeProfile")
    /\ Cardinality(Buckets(calls[1].args.prices)) = 7
    /\ report.value.valueArea.low < report.value.valueArea.high
    /\ \E k \in Buckets(calls[1].args.prices) :
          k < report.value.valueArea.low \/ k > report.value.valueArea.high
    /\ BandVolume(calls[1].args.prices, calls[1].args.volumes,
                  report.value.valueArea.low, report.value.valueArea.high) * 100
         >= SumSeq(calls[1].args.volumes) * 68

\* The fetched series is the strictly rising 200-point series with constant
\* positive volumes.
RisingSnapshot ==
    historicalData = Snapshot(PriceSeries("rising", 200), "constant")

\* C24: when the fetched series is strictly rising over 200 points with
\* constant positive volumes and every external call succeeded, the
\* returned report has the bullish phase label of its service definition
\* ('bullish' in the first, 'markup' in the second), the primary trend
\* 'bullish', and an RSI above 50.
C24_RisingSeriesReadsBullish ==
    (Returned /\ EveryCallSucceeded /\ RisingSnapshot)
    => /\ report.marketCondition.phase = (IF variant = 1 THEN "bullish" ELSE "markup")
       /\ report.technicalSignals.trend.primary = "bullish"
       /\ JSGt(report.technicalSignals.momentum.rsi.value, 50 * U)

\* C25: whenever calculateTechnicalSignals accepted the fetched series and
\* the analysis returned, momentum.stochRSI.value of the report is a number
\* between 0 and 100; NaN does not reach the report.
C25_StochRSIInRange ==
    (Returned /\ technicalSignals # Unset)
    => InPercentRange(report.technicalSignals.momentum.stochRSI.value)

\* C27: in the first service definition the MA20, MA50 and MA200 that
\* calculateMarketPhase works with are the arithmetic means of the most
\* recent 20, 50 and 200 prices, for every valid series of 200 points or
\* more.
C27_AveragesAreRecentMeans ==
    DirectlyCalled("calculateMarketPhase.averages")
    => /\ report.value.ma20 = MeanOf(SliceLast(calls[1].args.prices, 20))
       /\ report.value.ma50 = MeanOf(SliceLast(calls[1].args.prices, 50))
       /\ report.value.ma200 = MeanOf(SliceLast(calls[1].args.prices, 200))

\* At least 15 prices, all positive and finite.
FifteenPositivePrices(prices) ==
    /\ Len(prices) >= 15
    /\ \A i \in 1..Len(prices) : IsNum(prices[i]) /\ prices[i] > 0

\* C29: calculateADX returns a finite number between 0 and 100 for every
\* series of at least 15 positive finite prices, non-increasing and
\* constant series included.
C29_ADXInRange ==
    (DirectlyCalled("calculateADX") /\ FifteenPositivePrices(calls[1].args.prices))
    => /\ IsNum(report.value)
       /\ InPercentRange(report.value)

\* The number of rule conditions that hold.
RulesHolding(rules) == Cardinality({r \in DOMAIN rules : rules[r]})

\* C30: in the phase decision of the first service definition at most one
\* of the four rule conditions holds, whatever the price and the three
\* averages are; the label is 'correction' exactly when
\* MA200 < price <= MA50, 'recovery' exactly when MA50 < price <= MA200,
\* and 'sideways' exactly when no rule holds.
C30_PhaseRulesAreExclusive ==
    DirectlyCalled("calculateMarketPhase.phase")
    => /\ RulesHolding(report.value.rules) <= 1
       /\ report.value.phase = "correction"
            <=> (JSLt(calls[1].args.ma200, calls[1].args.price)
                 /\ JSLe(calls[1].args.price, calls[1].args.ma50))
       /\ report.value.phase = "recovery"
            <=> (JSLt(calls[1].args.ma50, calls[1].args.price)
                 /\ JSLe(calls[1].args.price, calls[1].args.ma200))
       /\ report.value.phase = "sideways" <=> RulesHolding(report.value.rules) = 0

\* A correction: the price is above MA200 and not above MA50, and the
\* correction rule alone holds.
C30_Witness ==
    /\ DirectlyCalled("calculateMarketPhase.phase")
    /\ report.value.phase = "correction"
    /\ report.value.rules.correction
    /\ calls[1].args.ma200 < calls[1].args.price
    /\ calls[1].args.price < calls[1].args.ma50

\* The fetched snapshot passed the two validations of getFullAnalysis.
PassedValidation(h) ==
    /\ h # Unset
    /\ h.kind = "data"
    /\ Len(h.prices) >= 20
    /\ ~Falsy(ProcessedData(h).current_price)

\* The calls that depend on a validated snapshot.
LaterCalls == {"trendModel", "getSentiment", "getNews", "generateStrategy"}

\* The step makes the external call op.
Calls(op) == Len(calls') = Len(calls) + 1 /\ calls'[Len(calls')].op = op

\* C28: the external interactions of one getFullAnalysis come in a fixed
\* order.  getHistoricalData is the first call; the trend model,
\* getSentiment, getNews and the strategy generator are called only when the
\* snapshot fetched before has passed validation (so none of them is called
\* when it fails); getSentiment and getNews are called only after the
\* technical signals and the market condition were computed; the strategy
\* generator is called at most once, and only after the predictions and the
\* risk analysis exist.
C28_CallsComeInOrder ==
    [][/\ Len(calls) = 0 /\ Len(calls') > 0 => Calls("getHistoricalData")
       /\ \A op \in LaterCalls : Calls(op) => PassedValidation(historicalData)
       /\ Calls("getSentiment") \/ Calls("getNews")
            => technicalSignals # Unset /\ marketCondition # Unset
       /\ Calls("generateStrategy")
            => /\ predictions # Unset /\ riskAnalysis # Unset
               /\ \A i \in 1..Len(calls) : calls[i].op # "generateStrategy"]_vars

\* A full run: the five calls were made, the strategy generator last, and
\* the report was returned.
C28_Witness ==
    /\ Returned
    /\ Len(calls) >= 5
    /\ calls[Len(calls)].op = "generateStrategy"
    /\ calls[Len(calls)].kind = "object"
    /\ PassedValidation(historicalData)

\* The i-th external call of one getFullAnalysis(c), as logged.
OwnCall(c, op) ==
    [op |-> op,
     kind |-> CASE op = "getHistoricalData" -> HistoricalAnswer(c).kind
                [] op = "trendModel" -> TrendAnswer(c).kind
                [] op = "getSentiment" -> SentimentAnswer(c).kind
                [] op = "getNews" -> NewsAnswer(c).kind
                [] op = "predictorModel" -> PredictorAnswer(c).kind
                [] op = "generateStrategy" -> StrategyAnswer(c).kind]

CallOrder ==
    IF variant = 1
    THEN <<"getHistoricalData", "trendModel", "getSentiment", "getNews",
           "generateStrategy">>
    ELSE <<"getHistoricalData", "trendModel", "getSentiment", "getNews",
           "predictorModel", "generateStrategy">>

\* Each local of the running call that is set has the value computed from
\* the call's own argument, the answers to it and its own earlier locals.
LocalsAreOwn ==
    /\ Len(calls) <= Len(CallOrder)
    /\ \A i \in 1..Len(calls) : calls[i] = OwnCall(crypto, CallOrder[i])
    /\ historicalData # Unset => historicalData = HistoricalAnswer(crypto)
    /\ technicalSignals # Unset
         => technicalSignals = SignalsOfData(ProcessedData(historicalData)).value
    /\ marketCondition # Unset
         => marketCondition
              = PhaseOfData(ProcessedData(historicalData), TrendAnswer(crypto)).value
    /\ sentiment # Unset => sentiment = SentimentAnswer(crypto)
    /\ newsData # Unset => newsData = NewsAnswer(crypto)
    /\ predictions # Unset
         => predictions
              = IF variant = 1 THEN predictPriceTargets1(PredictionData)
                ELSE predictPriceTargets2(PredictionData, PredictorAnswer(crypto))
    /\ riskAnalysis # Unset
         => /\ riskAnalysis = RiskOfData(newsData).value
            /\ sentimentAnalysis = SentimentSection(newsData).value

\* The running call stopped after the call op because of its own data.
FailedAfter(op) ==
    CASE op = "getHistoricalData" ->
            \/ ~PassedValidation(historicalData)
            \/ SignalsOfData(ProcessedData(historicalData)).kind = "throw"
      [] op = "trendModel" ->
            PhaseOfData(ProcessedData(historicalData), TrendAnswer(crypto)).kind = "throw"
      [] op = "getSentiment" -> SentimentAnswer(crypto).kind = "throw"
      [] op = "getNews" ->
            \/ NewsAnswer(crypto).kind = "throw"
            \/ /\ variant = 1
               /\ \/ RiskOfData(newsData).kind = "throw"
                  \/ SentimentSection(newsData).kind = "throw"
      [] op = "predictorModel" ->
            \/ RiskOfData(newsData).kind = "throw"
            \/ SentimentSection(newsData).kind = "throw"
      [] op = "generateStrategy" -> StrategyAnswer(crypto).kind = "throw"

\* The running call ended the way it ends alone: with the report made of
\* its own locals and of the strategy answered to it, or, when one of its
\* own steps failed, with getDefaultAnalysis of its own argument.
EndsAsAlone ==
    IF Len(calls) = Len(CallOrder) /\ StrategyAnswer(crypto).kind # "throw"
    THEN /\ outcome = "returned"
         /\ report = [marketCondition |-> marketCondition,
                      technicalSignals |-> technicalSignals,
                      sentimentAnalysis |-> sentimentAnalysis,
                      predictions |-> predictions,
                      riskAnalysis |-> riskAnalysis,
                      tradingStrategy |-> StrategyAnswer(crypto).strategy]
    ELSE /\ FailedAfter(calls[Len(calls)].op)
         /\ outcome = IF getDefaultAnalysis(crypto).kind = "throw"
                      THEN "rejected" ELSE "returned"
         /\ report = IF getDefaultAnalysis(crypto).kind = "throw"
                     THEN Unset ELSE getDefaultAnalysis(crypto).value

\* C26: with two calls of getFullAnalysis interleaved at their awaits, each
\* call works on its own data only and returns the report it returns
\* alone: at every moment the locals of the running call are those computed
\* from its own argument and the answers to it, and when it has ended, its
\* report is the one its own data determine.
C26_InterleavedCallsDoNotInterfere ==
    suspended # Unset
    => /\ LocalsAreOwn
       /\ pc = "done" => EndsAsAlone

\* A call returned its full report while the other call, on another asset,
\* is suspended half way, its technical signals computed.
C26_Witness ==
    /\ suspended # Unset
    /\ Returned
    /\ Len(calls) = Len(CallOrder)
    /\ report # getDefaultAnalysis(crypto).value
    /\ suspended.crypto # crypto
    /\ suspended.pc = "getNews"
    /\ suspended.technicalSignals # Unset
====
